---- MODULE Spec2Model ----
(***************************************************************************)
(* Model of the order / inventory / payment core of ldc-store.             *)
(*                                                                         *)
(* The relational store is the only shared state: the tables `orders`,     *)
(* `cards` and the `salesCount` column of `products`.  Every server action *)
(* and the payment webhook run as requests in one of MaxReq slots; a       *)
(* request advances one database statement (or one transaction) at a time, *)
(* so that requests interleave exactly where the code lets them.           *)
(*                                                                         *)
(* The actions are shared by the specifications:                           *)
(*   Spec          every operation; requests start one at a time, with the *)
(*                 clock and the one-transaction operations between their  *)
(*                 statements                                              *)
(*   SpecCheckout  createOrder calls overlapping statement by statement    *)
(*   SpecWebhook   deliveries of the gateway's notification overlapping    *)
(*   SpecNotify    the webhook on every kind of notification, sound or not *)
(*   SpecRefund    one order from payment to refund, the refund operations *)
(*                 overlapping, with every answer of the gateway           *)
(*   SpecQuery     the order queries by every caller                       *)
(*   SpecSweep     expiry sweeps, one after another and overlapping;       *)
(*                 SpecSweepFair adds that sweeps keep being called        *)
(*   SpecSign      generateSign and verifySign on their own                *)
(*   SpecDelete    deleteAdminOrders calls overlapping, on every id list   *)
(*   SpecTrade     deliveries under two trade numbers overlapping          *)
(*   SpecMode      refunds while the deployment's refund mode changes      *)
(***************************************************************************)
EXTENDS Integers, Sequences, FiniteSets, TLC

(***************************************************************************)
(* Bounds of the model                                                     *)
(***************************************************************************)
MaxOrders == 2      \* orders ever inserted
MaxReq    == 2      \* requests in flight at the same time
MaxTime   == 1      \* clock ticks
MaxSales  == 3      \* cap on products.salesCount

(***************************************************************************)
(* Catalog and environment                                                 *)
(***************************************************************************)
Products == {"p1", "p2"}
Cards    == 1..3
CardProduct(c) == IF c <= 2 THEN "p1" ELSE "p2"

PriceCents(p)  == IF p = "p1" THEN 500 ELSE 100
MinQuantity(p) == 1
MaxQuantity(p) == 2
\* the product is looked up without a condition
IsActiveAny(p) == TRUE

IsActive(p)    == p \in Products

\* ORDER_EXPIRE_MINUTES in ticks of the clock: a tick is a lapse of time longer
\* than the lifetime of an order, so an order is overdue from the tick after
\* the one it was created in.
ORDER_EXPIRE_TICKS == 0

OrderIds == 1..MaxOrders
Slots    == 1..MaxReq

NULL    == 0          \* SQL NULL of an order id
NoTrade == ""         \* SQL NULL of trade_no

NoOrder == [status |-> "none"]
\* a timestamp column that is null
NoTime == -1

\* EXPIRE_CHECK_INTERVAL (60 s) in ticks of the clock: steps at the same value
\* of the clock are less than the interval apart, and a tick is a lapse of
\* time longer than it.
EXPIRE_CHECK_INTERVAL == 1

OrderStatus == {"pending", "paid", "completed", "expired",
                "refund_pending", "refund_rejected", "refunded"}

VARIABLES
    orders,        \* orders table: order id -> row, NoOrder when absent
    cards,         \* cards table: card id -> row
    salesCount,    \* products.sales_count
    now,           \* the clock (NOW() / Date.now())
    nextOrder,     \* number of order rows ever inserted (ids are fresh)
    req,           \* the requests in flight, one per slot
    out,           \* the response returned by the step just taken
    soldTo,        \* history: the orders each card has been sold to
    refundedOnce,  \* history: the orders that have had status refunded
    completions,   \* history: completion transactions committed per order
    lastExpireCheck, \* module variable of the product queries: the time of
                     \* the last sweep they ran
    refundEnv      \* process.env of the deployment: LDC_REFUND_MODE and
                   \* LDC_PROXY_URL

vars == <<orders, cards, salesCount, now, nextOrder, req, out,
          soldTo, refundedOnce, completions, lastExpireCheck, refundEnv>>

(***************************************************************************)
(* Callers                                                                 *)
(***************************************************************************)
Anonymous == [id |-> "", provider |-> "", admin |-> FALSE]
User1     == [id |-> "u1", provider |-> "linux-do", admin |-> FALSE]
User2     == [id |-> "u2", provider |-> "linux-do", admin |-> FALSE]
Admin     == [id |-> "admin", provider |-> "credentials", admin |-> TRUE]

\* `!user?.id || user.provider !== "linux-do"` negated
IsLinuxDoUser(u) == u.id # "" /\ u.provider = "linux-do"

(***************************************************************************)
(* Request slots and responses                                             *)
(***************************************************************************)
Idle == [op |-> "none", pc |-> "idle", user |-> "", oid |-> NULL,
         prod |-> "", qty |-> 0, pay |-> "", trade |-> NoTrade,
         snap |-> {}, rows |-> {}, tag |-> "", amt |-> "", reason |-> <<>>]

\* a new request takes the first free slot
Free(s) == req[s].pc = "idle" /\ \A t \in 1..(s - 1) : req[t].pc # "idle"

\* `out` is the response returned by the step just taken, NoOut if it
\* returned none.  For the webhook it also says what was sent: tag is the
\* kind of request and amt how its amount compares with the order's.  For the
\* order queries it says who asked (user) and which card contents were
\* returned, each with the order it was listed under (shown).  For the
\* deletion it gives deletedCount (status) and notFoundIds (notFound).
\* swept says that the step ran the expiry sweep inline, before a reservation
\* or a product query.
NoOut == [op |-> "none", ok |-> FALSE, body |-> "", status |-> 0, why |-> "",
          oid |-> NULL, tag |-> "", amt |-> "", user |-> "", shown |-> {},
          notFound |-> {}, swept |-> FALSE]

\* the result object of a server action
Result(op, ok, why, oid) ==
    [NoOut EXCEPT !.op = op, !.ok = ok, !.why = why, !.oid = oid]

(***************************************************************************)
(* Table helpers                                                           *)
(***************************************************************************)
Exists(o) == orders[o] # NoOrder

CardsOf(o) == {c \in Cards : cards[c].orderId = o}

\* The history variables record what the step just taken did to the tables;
\* done is the set of orders whose completion transaction it committed.
History(done) ==
    /\ soldTo' = [c \in Cards |->
                     IF cards'[c].status = "sold" /\ cards'[c].orderId # NULL
                     THEN soldTo[c] \cup {cards'[c].orderId}
                     ELSE soldTo[c]]
    /\ refundedOnce' = refundedOnce
                          \cup {o \in OrderIds : orders'[o].status = "refunded"}
    /\ completions' = [o \in OrderIds |->
                          IF o \in done THEN completions[o] + 1 ELSE completions[o]]

\* a step of anything but the throttled sweep of the product queries
Observe(done) == History(done) /\ UNCHANGED <<lastExpireCheck, refundEnv>>

\* eq(cards.productId, productId) AND eq(cards.status, "available")
IsAvailableFor(c, p) == cards[c].productId = p /\ cards[c].status = "available"

AvailableCards(p) == {c \in Cards : IsAvailableFor(c, p)}

\* rows on which another open createOrder transaction holds a FOR UPDATE lock
RowLockedByOther(c, s) ==
    \E t \in Slots \ {s} : req[t].pc = "commit" /\ c \in req[t].rows

(***************************************************************************)
(* releaseExpiredOrders: one transaction                                   *)
(***************************************************************************)
\* a pending order is swept whatever its expiry time
IsPendingWhenever(o) == orders[o].status = "pending"

\* eq(orders.status, "pending") AND orders.expiredAt < NOW()
IsExpiredPending(o) ==
    /\ orders[o].status = "pending"
    /\ orders[o].expiredAt < now

ExpiredOrders == {o \in OrderIds : Exists(o) /\ IsExpiredPending(o)}

\* eq(cards.status, "locked") AND inArray(cards.orderId, orderIds)
IsLockedFor(c, ids) == cards[c].status = "locked" /\ cards[c].orderId \in ids

SweptOrders ==
    [o \in OrderIds |->
        IF o \in ExpiredOrders THEN [orders[o] EXCEPT !.status = "expired"]
        ELSE orders[o]]

\* the orders expire and their cards are left as they are
ReleasedCardsKept(ids) == cards

ReleasedCards(ids) ==
    [c \in Cards |->
        IF IsLockedFor(c, ids)
        THEN [cards[c] EXCEPT !.status = "available", !.orderId = NULL]
        ELSE cards[c]]

SweptCards == IF ExpiredOrders = {} THEN cards ELSE ReleasedCards(ExpiredOrders)

releaseExpiredOrders ==
    /\ ExpiredOrders # {}
    /\ orders' = SweptOrders
    /\ cards' = SweptCards
    /\ out' = Result("releaseExpiredOrders", TRUE, "", NULL)
    /\ UNCHANGED <<salesCount, now, nextOrder, req>>
    /\ Observe({})

\* The same sweep statement by statement, for calls that overlap.  The rows
\* the first statement updates stay locked, and their new values unseen by
\* others, until the transaction commits.
SweepLocked(s) ==
    UNION {req[t].snap : t \in {x \in Slots : x # s /\ req[x].op = "releaseExpiredOrders"}}

\* an update that waits for no row lock
SweepNeverWaits(s) == FALSE

\* the UPDATE of lines 270-282 waits while a row it matches is locked
SweepWaits(s) == ExpiredOrders \cap SweepLocked(s) # {}

\* the count a sweep returns
Swept(n) ==
    [Result("releaseExpiredOrders", TRUE, "", NULL) EXCEPT !.status = n]

\* lines 268-286: the UPDATE ... RETURNING id; no row, return 0
sweepOrders(s) ==
    /\ Free(s)
    /\ ~SweepWaits(s)
    /\ IF ExpiredOrders = {} THEN
            /\ out' = Swept(0)
            /\ UNCHANGED req
       ELSE
            /\ req' = [req EXCEPT ![s] =
                         [Idle EXCEPT !.op = "releaseExpiredOrders", !.pc = "cards",
                                      !.snap = ExpiredOrders]]
            /\ out' = NoOut
    /\ UNCHANGED <<orders, cards, salesCount, now, nextOrder>>
    /\ Observe({})

\* lines 288-312: the UPDATE of the cards, the commit and the return
sweepCommit(s) ==
    /\ req[s].op = "releaseExpiredOrders" /\ req[s].pc = "cards"
    /\ orders' = [o \in OrderIds |->
                     IF o \in req[s].snap THEN [orders[o] EXCEPT !.status = "expired"]
                     ELSE orders[o]]
    /\ cards' = ReleasedCards(req[s].snap)
    /\ req' = [req EXCEPT ![s] = Idle]
    /\ out' = Swept(Cardinality(req[s].snap))
    /\ UNCHANGED <<salesCount, now, nextOrder>>
    /\ Observe({})

\* The statement of lazyReleaseExpiredOrders.
\* WITH expired AS (UPDATE orders ... WHERE status = 'pending' AND
\* expired_at < NOW() RETURNING id)
CteExpired ==
    {o \in OrderIds : Exists(o) /\ orders[o].status = "pending"
                                /\ orders[o].expiredAt < now}

\* SET status = 'expired' on the rows of the WITH query
CteOrders ==
    [o \in OrderIds |->
        IF o \in CteExpired THEN [orders[o] EXCEPT !.status = "expired"]
        ELSE orders[o]]

\* UPDATE cards SET status = 'available', order_id = NULL, locked_at = NULL
\* WHERE status = 'locked' AND order_id IN (SELECT id FROM expired)
CteCards ==
    [c \in Cards |->
        IF cards[c].status = "locked" /\ cards[c].orderId \in CteExpired
        THEN [cards[c] EXCEPT !.status = "available", !.orderId = NULL]
        ELSE cards[c]]

\* the throttle lets every call through
ExpireCheckAlwaysDue == TRUE

\* line 24 negated: now - lastExpireCheck >= EXPIRE_CHECK_INTERVAL
ExpireCheckDue == now - lastExpireCheck >= EXPIRE_CHECK_INTERVAL

\* lazyReleaseExpiredOrders (the product queries): skipped when the last
\* check of the instance is less than a minute old (due = FALSE), else the
\* time is noted and the sweep run as one statement
lazyReleaseExpiredOrders(due) ==
    /\ due = ExpireCheckDue
    /\ IF due THEN
            /\ ExpiredOrders \cap SweepLocked(NULL) = {}
            /\ lastExpireCheck' = now
            /\ orders' = CteOrders
            /\ cards' = CteCards
       ELSE UNCHANGED <<orders, cards, lastExpireCheck>>
    /\ out' = [Result("lazyReleaseExpiredOrders", due, "", NULL)
                  EXCEPT !.swept = due]
    /\ UNCHANGED <<salesCount, now, nextOrder, req, refundEnv>>
    /\ History({})

(***************************************************************************)
(* createOrder                                                             *)
(***************************************************************************)
\* createOrderSchema: a positive whole quantity and a known payment method
SchemaOk(p, q, m) == q >= 1 /\ m \in {"ldc", "alipay"} /\ p # ""

\* inserts still possible within the bound, counting the open transactions
OpenCreates == Cardinality({t \in Slots : req[t].op = "createOrder"
                                          /\ req[t].pc \in {"select", "lock", "commit"}})

\* lines 50-92: session, schema, the inline sweep, product and quantity checks
createOrderStart(s, u, p, q, m) ==
    /\ Free(s)
    /\ IF ~IsLinuxDoUser(u) THEN
            /\ out' = Result("createOrder", FALSE, "login", NULL)
            /\ UNCHANGED <<orders, cards, req>>
       ELSE IF ~SchemaOk(p, q, m) THEN
            /\ out' = Result("createOrder", FALSE, "invalid", NULL)
            /\ UNCHANGED <<orders, cards, req>>
       ELSE
            /\ orders' = SweptOrders
            /\ cards' = SweptCards
            /\ IF ~IsActive(p) THEN
                    /\ out' = [Result("createOrder", FALSE, "no_product", NULL)
                                  EXCEPT !.swept = TRUE]
                    /\ UNCHANGED req
               ELSE IF q < MinQuantity(p) \/ q > MaxQuantity(p) THEN
                    /\ out' = [Result("createOrder", FALSE, "quantity", NULL)
                                  EXCEPT !.swept = TRUE]
                    /\ UNCHANGED req
               ELSE
                    /\ nextOrder + OpenCreates < MaxOrders
                    /\ req' = [req EXCEPT ![s] =
                                 [Idle EXCEPT !.op = "createOrder", !.pc = "select",
                                              !.user = u.id, !.prod = p,
                                              !.qty = q, !.pay = m]]
                    /\ out' = [NoOut EXCEPT !.swept = TRUE]
    /\ UNCHANGED <<salesCount, now, nextOrder>>
    /\ Observe({})

\* lines 97-102: the SELECT ... FOR UPDATE reads its statement snapshot
createOrderSelect(s) ==
    /\ req[s].op = "createOrder" /\ req[s].pc = "select"
    /\ req' = [req EXCEPT ![s] = [@ EXCEPT !.pc = "lock",
                                          !.snap = AvailableCards(req[s].prod)]]
    /\ out' = NoOut
    /\ UNCHANGED <<orders, cards, salesCount, now, nextOrder>>
    /\ Observe({})

\* Rows of the snapshot that still match when their lock is taken.
Lockable(s) == {c \in req[s].snap : IsAvailableFor(c, req[s].prod)}

\* the select without FOR UPDATE: no row makes the statement wait
CanLockNoRowLock(c, s) == TRUE

\* A row locked by another open transaction makes the statement wait.
CanLock(c, s) == ~RowLockedByOther(c, s)

\* lines 97-106: the row locks are taken on at most `quantity` rows; the
\* statement waits for rows locked by others unless enough rows are free
createOrderLock(s) ==
    /\ req[s].op = "createOrder" /\ req[s].pc = "lock"
    /\ LET free == {c \in Lockable(s) : CanLock(c, s)}
           q    == req[s].qty
       IN
       IF Cardinality(free) >= q THEN
            \E rows \in SUBSET free :
                /\ Cardinality(rows) = q
                /\ req' = [req EXCEPT ![s] = [@ EXCEPT !.pc = "commit",
                                                      !.snap = {}, !.rows = rows]]
                /\ out' = NoOut
       ELSE
            /\ free = Lockable(s)
            /\ req' = [req EXCEPT ![s] = Idle]
            /\ out' = [Result("createOrder", FALSE, "insufficient", NULL)
                          EXCEPT !.status = Cardinality(free)]
    /\ UNCHANGED <<orders, cards, salesCount, now, nextOrder>>
    /\ Observe({})

\* Number.prototype.toFixed(2) of an amount held in minor units
Digit(n) == <<"0", "1", "2", "3", "4", "5", "6", "7", "8", "9">>[n + 1]

RECURSIVE DigitsOf(_)
DigitsOf(n) == IF n < 10 THEN <<Digit(n)>>
               ELSE DigitsOf(n \div 10) \o <<Digit(n % 10)>>

ToFixed2(cents) ==
    DigitsOf(cents \div 100) \o <<".">> \o
    <<Digit((cents \div 10) % 10), Digit(cents % 10)>>

\* lines 110-127: the inserted row
NewOrder(s) ==
    [status        |-> "pending",
     productId     |-> req[s].prod,
     quantity      |-> req[s].qty,
     totalAmount   |-> ToFixed2(PriceCents(req[s].prod) * req[s].qty),
     paymentMethod |-> req[s].pay,
     tradeNo       |-> NoTrade,
     userId        |-> req[s].user,
     expiredAt     |-> now + ORDER_EXPIRE_TICKS,
     refundReason  |-> <<>>,
     refundRequestedAt |-> NoTime]

\* the UPDATE without inArray(cards.id, cardIds)
LockedCardsOfProduct(s, id) ==
    [c \in Cards |->
        IF IsAvailableFor(c, req[s].prod)
        THEN [cards[c] EXCEPT !.status = "locked", !.orderId = id]
        ELSE cards[c]]

\* lines 131-144: the UPDATE that locks the selected rows
LockedCards(s, id) ==
    [c \in Cards |->
        IF IsAvailableFor(c, req[s].prod) /\ c \in req[s].rows
        THEN [cards[c] EXCEPT !.status = "locked", !.orderId = id]
        ELSE cards[c]]

\* the order and its locks are undone when no payment form can be made
createOrderCommitUndone(s, linkOk) ==
    /\ req[s].op = "createOrder" /\ req[s].pc = "commit"
    /\ LET id == nextOrder + 1 IN
        IF req[s].pay = "ldc" /\ ~linkOk THEN
            /\ out' = Result("createOrder", TRUE, "created_nolink", id)
            /\ UNCHANGED <<orders, cards, nextOrder>>
        ELSE
            /\ orders' = [orders EXCEPT ![id] = NewOrder(s)]
            /\ cards' = LockedCards(s, id)
            /\ nextOrder' = id
            /\ out' = Result("createOrder", TRUE, "created", id)
    /\ req' = [req EXCEPT ![s] = Idle]
    /\ UNCHANGED <<salesCount, now>>
    /\ Observe({})

\* lines 113-180: insert, lock, commit, then the payment link
createOrderCommit(s, linkOk) ==
    /\ req[s].op = "createOrder" /\ req[s].pc = "commit"
    /\ LET id == nextOrder + 1 IN
        /\ orders' = [orders EXCEPT ![id] = NewOrder(s)]
        /\ cards' = LockedCards(s, id)
        /\ nextOrder' = id
        /\ req' = [req EXCEPT ![s] = Idle]
        /\ out' = Result("createOrder", TRUE,
                         IF req[s].pay = "ldc" /\ ~linkOk THEN "created_nolink"
                         ELSE "created", id)
    /\ UNCHANGED <<salesCount, now>>
    /\ Observe({})

(***************************************************************************)
(* Signing (lib/payment/ldc.ts)                                            *)
(***************************************************************************)
Secret      == "k3y"       \* LDC_CLIENT_SECRET
MerchantPid == "1001"      \* LDC_CLIENT_ID

\* A text whose characters matter (an amount) is a sequence of characters;
\* Str gives it as one string.
RECURSIVE Str(_)
Str(cs) == IF cs = <<>> THEN "" ELSE Head(cs) \o Str(Tail(cs))

\* the characters of a parameter name, for the names met here
Spelling(k) ==
    CASE k = "money"        -> <<"m", "o", "n", "e", "y">>
      [] k = "name"         -> <<"n", "a", "m", "e">>
      [] k = "notify_url"   -> <<"n", "o", "t", "i", "f", "y", "_", "u", "r", "l">>
      [] k = "out_trade_no" -> <<"o", "u", "t", "_", "t", "r", "a", "d", "e", "_",
                                 "n", "o">>
      [] k = "pid"          -> <<"p", "i", "d">>
      [] k = "return_url"   -> <<"r", "e", "t", "u", "r", "n", "_", "u", "r", "l">>
      [] k = "trade_no"     -> <<"t", "r", "a", "d", "e", "_", "n", "o">>
      [] k = "trade_status" -> <<"t", "r", "a", "d", "e", "_", "s", "t", "a", "t",
                                 "u", "s">>
      [] k = "type"         -> <<"t", "y", "p", "e">>
      [] k = "a_"           -> <<"a", "_">>
      [] k = "a1"           -> <<"a", "1">>
      [] k = "B"            -> <<"B">>

Lower == <<"a", "b", "c", "d", "e", "f", "g", "h", "i", "j", "k", "l", "m",
           "n", "o", "p", "q", "r", "s", "t", "u", "v", "w", "x", "y", "z">>

\* the place of a small letter in the alphabet
Place(ch) == CHOOSE i \in DOMAIN Lower : Lower[i] = ch

\* The collation weights of a character in the order localeCompare uses
\* (the root collation of ICU, which Node.js ships): the first says that
\* punctuation comes before digits and digits before letters, a letter at
\* its place in the alphabet whatever its case; the second puts the small
\* letter before the capital.
Weight(ch) ==
    CASE ch = "_" -> <<1, 0>>
      [] ch = "1" -> <<2, 0>>
      [] ch = "B" -> <<10 + Place("b"), 1>>
      [] OTHER    -> <<10 + Place(ch), 0>>

\* -1, 0 or 1 as the sequence of numbers x comes before, with or after y
RECURSIVE CompareSeq(_, _)
CompareSeq(x, y) ==
    IF x = <<>> THEN (IF y = <<>> THEN 0 ELSE -1)
    ELSE IF y = <<>> THEN 1
    ELSE IF Head(x) < Head(y) THEN -1
    ELSE IF Head(x) > Head(y) THEN 1
    ELSE CompareSeq(Tail(x), Tail(y))

\* a.localeCompare(b): the first weights decide, the second break the tie
localeCompare(a, b) ==
    LET Weights(k, n) == [i \in DOMAIN Spelling(k) |-> Weight(Spelling(k)[i])[n]]
        first == CompareSeq(Weights(a, 1), Weights(b, 1))
    IN  IF first # 0 THEN first ELSE CompareSeq(Weights(a, 2), Weights(b, 2))

\* .sort(([a], [b]) => a.localeCompare(b)) on names that differ
RECURSIVE SortKeys(_)
SortKeys(names) ==
    IF names = {} THEN <<>>
    ELSE LET least == CHOOSE k \in names :
                          \A j \in names : localeCompare(k, j) <= 0
         IN  <<least>> \o SortKeys(names \ {least})

Value(params, k) == IF k = "money" THEN Str(params.money) ELSE params[k]

\* the filter also leaves out the name of the item
SignableButName(params, k) ==
    /\ k \in DOMAIN params
    /\ k \notin {"sign", "sign_type", "name"}
    /\ Value(params, k) # ""

\* value !== undefined && value !== "" && key !== "sign" && key !== "sign_type"
Signable(params, k) ==
    /\ k \in DOMAIN params
    /\ k \notin {"sign", "sign_type"}
    /\ Value(params, k) # ""

SignedKeys(params) == SortKeys({k \in DOMAIN params : Signable(params, k)})

\* k1=v1&k2=v2 ... without any encoding
RECURSIVE JoinPairs(_, _)
JoinPairs(params, keys) ==
    IF keys = <<>> THEN ""
    ELSE Head(keys) \o "=" \o Value(params, Head(keys))
         \o (IF Len(keys) > 1 THEN "&" ELSE "")
         \o JoinPairs(params, Tail(keys))

\* The digest is taken to be collision free: it is the text itself, tagged.
MD5(text) == "md5(" \o text \o ")"

generateSign(params, secret) ==
    MD5(JoinPairs(params, SignedKeys(params)) \o secret)

verifySignPresent(params, secret) == params.sign # ""

verifySign(params, secret) == params.sign = generateSign(params, secret)

(***************************************************************************)
(* Amounts (app/api/payment/notify/route.ts, toCents)                      *)
(***************************************************************************)
Digits == {"0", "1", "2", "3", "4", "5", "6", "7", "8", "9"}

DigitVal(ch) == CHOOSE n \in 0..9 : Digit(n) = ch

RECURSIVE TrimLeft(_)
TrimLeft(cs) == IF cs # <<>> /\ Head(cs) = " " THEN TrimLeft(Tail(cs)) ELSE cs

RECURSIVE TrimRight(_)
TrimRight(cs) ==
    IF cs # <<>> /\ cs[Len(cs)] = " " THEN TrimRight(SubSeq(cs, 1, Len(cs) - 1))
    ELSE cs

AllDigits(cs) == \A i \in 1..Len(cs) : cs[i] \in Digits

RECURSIVE DigitsValue(_)
DigitsValue(cs) ==
    IF cs = <<>> THEN 0
    ELSE DigitsValue(SubSeq(cs, 1, Len(cs) - 1)) * 10 + DigitVal(cs[Len(cs)])

RECURSIVE Pow10(_)
Pow10(n) == IF n = 0 THEN 1 ELSE 10 * Pow10(n - 1)

DotAt(cs) ==
    IF \E i \in 1..Len(cs) : cs[i] = "."
    THEN CHOOSE i \in 1..Len(cs) : cs[i] = "." /\ \A j \in 1..(i - 1) : cs[j] # "."
    ELSE 0

NaN == [finite |-> FALSE, neg |-> FALSE, mant |-> 0, scale |-> 0]

\* StrUnsignedDecimalLiteral without exponent: digits, digits.digits, digits., .digits
UnsignedDecimal(cs, neg) ==
    LET d  == DotAt(cs)
        ip == IF d = 0 THEN cs ELSE SubSeq(cs, 1, d - 1)
        fp == IF d = 0 THEN <<>> ELSE SubSeq(cs, d + 1, Len(cs))
    IN  IF AllDigits(ip) /\ AllDigits(fp) /\ Len(ip) + Len(fp) > 0
        THEN [finite |-> TRUE, neg |-> neg, mant |-> DigitsValue(ip \o fp),
              scale |-> Len(fp)]
        ELSE NaN

\* Number(value) for texts over digits, sign, point, blank and letters: the
\* number is neg * mant / 10^scale; anything else (NaN, Infinity) is not finite
Number(value) ==
    LET t == TrimRight(TrimLeft(value)) IN
    IF t = <<>> THEN [finite |-> TRUE, neg |-> FALSE, mant |-> 0, scale |-> 0]
    ELSE IF Head(t) \in {"+", "-"} THEN UnsignedDecimal(Tail(t), Head(t) = "-")
    ELSE UnsignedDecimal(t, FALSE)

\* amounts whose double product amount * 100 lies just below the tie x.5
\* (1.005 * 100 = 100.49999999999999, 9.995 * 100 = 999.4999999999999)
ProductBelowTie == { <<"1", ".", "0", "0", "5">>, <<"9", ".", "9", "9", "5">> }

\* Math.floor in the place of Math.round
RoundDown(num, den) == num \div den

\* Math.round: to the nearest integer, a tie towards +Infinity
RoundHalfUp(num, den) == (2 * num + den) \div (2 * den)

IsTie(num, den) == (2 * num + den) % (2 * den) = 0

\* toCents: <<>> is null, <<n>> a number of minor units
toCents(value) ==
    LET n   == Number(value)
        num == (IF n.neg THEN -1 ELSE 1) * n.mant * 100
        den == Pow10(n.scale)
    IN  IF ~n.finite THEN <<>>
        ELSE IF IsTie(num, den) /\ TrimRight(TrimLeft(value)) \in ProductBelowTie
        THEN << RoundHalfUp(num, den) - 1 >>
        ELSE << RoundHalfUp(num, den) >>

(***************************************************************************)
(* handlePaymentSuccess and adminCompleteOrder (lib/actions/orders.ts)     *)
(***************************************************************************)
OrderNo(id) == "LD" \o Digit(id)

\* the row with this order number, if any (order_no is unique)
FindByOrderNo(no) == {o \in OrderIds : Exists(o) /\ OrderNo(o) = no}

\* the update matched on the order number alone
PayableByNoAnyStatus(o, no) == Exists(o) /\ OrderNo(o) = no

\* the update also matches an order that has expired
PayableByNoUnpaid(o, no) ==
    Exists(o) /\ OrderNo(o) = no /\ orders[o].status \in {"pending", "expired"}

\* eq(orders.orderNo, orderNo) AND eq(orders.status, "pending")
PayableByNo(o, no) == Exists(o) /\ OrderNo(o) = no /\ orders[o].status = "pending"

\* eq(orders.id, orderId)
CompletableById(o, id) == Exists(o) /\ o = id

\* the update without its condition: every card that is locked is sold
SoldCardsOfAll(o) ==
    [c \in Cards |->
        IF cards[c].status = "locked"
        THEN [cards[c] EXCEPT !.status = "sold"]
        ELSE cards[c]]

\* update(cards).set({status: "sold", soldAt}).where(eq(cards.orderId, order.id))
SoldCards(o) ==
    [c \in Cards |->
        IF cards[c].orderId = o
        THEN [cards[c] EXCEPT !.status = "sold"]
        ELSE cards[c]]

\* salesCount = salesCount + order.quantity
CountedSales(o) ==
    [salesCount EXCEPT ![orders[o].productId] = @ + orders[o].quantity]

SalesWithinBound(o) ==
    salesCount[orders[o].productId] + orders[o].quantity <= MaxSales

\* lines 203-246: the transaction of handlePaymentSuccess on order o
PaymentSuccessTx(o, tradeNo) ==
    /\ orders' = [orders EXCEPT ![o] = [@ EXCEPT !.status = "completed",
                                                !.tradeNo = tradeNo]]
    /\ cards' = SoldCards(o)
    /\ salesCount' = CountedSales(o)

\* lines 335-378: the transaction of adminCompleteOrder on order o
AdminCompleteTx(o) ==
    /\ orders' = [orders EXCEPT ![o] = [@ EXCEPT !.status = "completed"]]
    /\ cards' = SoldCards(o)
    /\ salesCount' = CountedSales(o)

\* requireAdmin (lib/auth-utils): the session belongs to an administrator
requireAdmin(u) == u.admin

adminCompleteOrder(u, id) ==
    /\ IF ~requireAdmin(u) THEN
            /\ out' = Result("adminCompleteOrder", FALSE, "not_admin", id)
            /\ UNCHANGED <<orders, cards, salesCount>>
            /\ Observe({})
       ELSE LET hit == {o \in OrderIds : CompletableById(o, id)} IN
            IF hit = {} THEN
                /\ out' = Result("adminCompleteOrder", FALSE, "no_order", id)
                /\ UNCHANGED <<orders, cards, salesCount>>
                /\ Observe({})
            ELSE
                /\ SalesWithinBound(id)
                /\ AdminCompleteTx(id)
                /\ out' = Result("adminCompleteOrder", TRUE, "completed", id)
                /\ Observe({id})
    /\ UNCHANGED <<now, nextOrder, req>>

(***************************************************************************)
(* The notifications tried                                                 *)
(***************************************************************************)
\* amounts as sent, each with its value in thousandths (<<>>: not a number)
MoneyInputs ==
    { << <<"1", "0", ".", "0", "0">>,           <<10000>> >>,
      << <<"5", ".", "0", "0">>,                <<5000>>  >>,
      << <<"1", ".", "0", "0">>,                <<1000>>  >>,
      << <<"1", "0", ".", "0", "1">>,           <<10010>> >>,
      << <<"1", "0">>,                          <<10000>> >>,
      << <<"1", "0", ".", "0", "0", "4">>,      <<10004>> >>,
      << <<"1", "0", ".", "0", "0", "5">>,      <<10005>> >>,
      << <<"1", "0", ".", "0", "0", "9">>,      <<10009>> >>,
      << <<"9", ".", "9", "9", "5">>,           <<9995>>  >>,
      << <<"9", ".", "9", "9", "6">>,           <<9996>>  >>,
      << <<" ", "5", ".", "0", "0", " ">>,      <<5000>>  >>,
      << <<"+", "5">>,                          <<5000>>  >>,
      << <<"5", ".">>,                          <<5000>>  >>,
      << <<"-", "5", ".", "0", "0">>,           <<-5000>> >>,
      << <<"1", ".", "0", "0", "5">>,           <<1005>>  >>,
      << <<"5", ".", "0", "a">>,                <<>>      >>,
      << <<"I", "n", "f", "i", "n", "i", "t", "y">>, <<>> >> }

Five == << <<"5", ".", "0", "0">>, <<5000>> >>
Ten  == << <<"1", "0", ".", "0", "0">>, <<10000>> >>

GoodEnv == [secret |-> Secret, pid |-> MerchantPid]

Signed(params, secret) == [params EXCEPT !.sign = generateSign(params, secret)]

\* what the gateway sends for order number no, paid with trade number t
Notice(no, t, money) ==
    Signed([pid |-> MerchantPid, trade_no |-> t, out_trade_no |-> no,
            type |-> "epay", name |-> "item", money |-> money,
            trade_status |-> "TRADE_SUCCESS", sign_type |-> "MD5", sign |-> ""],
           Secret)

Request(tag, params, mils) ==
    [tag |-> tag, env |-> GoodEnv, db |-> TRUE, params |-> params, mils |-> mils]

\* The requests sent about order number no: the gateway's notification with
\* each of the amounts (tag "genuine"), and notifications that fail a
\* validation step by construction (tag "defective").
NotifyInputsFor(no) ==
    LET v == Notice(no, "T1", Five[1])
        Defective(params) == Request("defective", params, Five[2])
    IN    { Request("genuine", Notice(no, "T1", m[1]), m[2]) : m \in MoneyInputs }
     \cup { Request("genuine", Notice(no, "T2", Five[1]), Five[2]),
            Request("genuine", [v EXCEPT !.sign_type = "md5"], Five[2]),
            Request("genuine", [v EXCEPT !.sign_type = ""], Five[2]),
            Request("genuine", Signed([v EXCEPT !.type = "alipay"], Secret), Five[2]),
            Request("unpaid", Signed([v EXCEPT !.trade_status = "TRADE_CLOSED"], Secret),
                    Five[2]),
            Defective([v EXCEPT !.sign_type = "RSA"]),
            Defective(Signed([v EXCEPT !.trade_no = ""], Secret)),
            Defective(Signed([v EXCEPT !.money = <<>>], Secret)),
            Defective([v EXCEPT !.sign = ""]),
            Defective(Signed([v EXCEPT !.pid = ""], Secret)),
            Defective(Signed([v EXCEPT !.pid = "9999"], Secret)),
            Defective(Signed(v, "gue55")),
            Defective([v EXCEPT !.trade_no = "T2"]),
            Defective([v EXCEPT !.money = <<"1", ".", "0", "0">>]),
            Defective([v EXCEPT !.trade_status = "TRADE_CLOSED"]),
            [Request("fault", v, Five[2]) EXCEPT !.env.secret = ""],
            [Request("fault", v, Five[2]) EXCEPT !.env.pid = ""],
            [Request("fault", v, Five[2]) EXCEPT !.db = FALSE] }

NotifyInputs ==
    UNION { NotifyInputsFor(OrderNo(o)) : o \in OrderIds }
    \cup { Request("defective", Notice("LD0", "T1", Five[1]), Five[2]),
           Request("defective", Signed([Notice("LD1", "T1", Five[1])
                                          EXCEPT !.out_trade_no = ""], Secret), Five[2]) }

\* The check of the signature and the conversion of the amount depend on the
\* request alone: they are tabulated once for the requests tried.
Verified == [n \in NotifyInputs |-> verifySign(n.params, n.env.secret)]

ReceivedCents == [n \in NotifyInputs |-> toCents(n.params.money)]

(***************************************************************************)
(* The payment webhook (app/api/payment/notify/route.ts)                   *)
(***************************************************************************)
\* String.prototype.toUpperCase on the sign_type values met here
ToUpperCase(t) == IF t = "md5" THEN "MD5" ELSE t

\* the amount of order o in minor units, as the catalog prices it
TotalCents(o) == PriceCents(orders[o].productId) * orders[o].quantity

\* How the amount sent (in thousandths, <<>> if it is no number) compares
\* with the amount of order o: within half a minor unit, exactly half a minor
\* unit away, further away, or not a number.
AmountClass(o, mils) ==
    IF o = NULL THEN ""
    ELSE IF mils = <<>> THEN "bad"
    ELSE LET d == mils[1] - 10 * TotalCents(o)
             a == IF d < 0 THEN -d ELSE d
         IN  IF a < 5 THEN "near" ELSE IF a = 5 THEN "tie" ELSE "far"

Response(n, body, status, why, o) ==
    [op |-> "notify", ok |-> (body = "success"), body |-> body, status |-> status,
     why |-> why, oid |-> o, tag |-> n.tag, amt |-> AmountClass(o, n.mils),
     user |-> "", shown |-> {}, notFound |-> {}, swept |-> FALSE]

\* no order is refused for the way it was to be paid
MethodMismatchNever(o) == FALSE

\* line 143: order.paymentMethod !== "ldc"
MethodMismatch(o) == orders[o].paymentMethod # "ldc"

\* every notification is taken for one of a payment
NotPaidNever(p) == FALSE

\* line 185: params.trade_status !== "TRADE_SUCCESS"
NotPaid(p) == p.trade_status # "TRADE_SUCCESS"

\* lines 155-157
AmountMismatch(expectedCents, receivedCents) ==
    \/ expectedCents = <<>>
    \/ receivedCents = <<>>
    \/ expectedCents # receivedCents

\* lines 37-211: everything up to the call of handlePaymentSuccess; it reads
\* the order once.  n is the request: its parameters, the environment of the
\* instance that serves it and whether the database answers.
notifyStart(s, n) ==
    /\ Free(s)
    /\ LET p     == n.params
           found == FindByOrderNo(p.out_trade_no)
           o     == IF found = {} THEN NULL ELSE CHOOSE x \in found : TRUE
           Answer(body, status, why) ==
               /\ out' = Response(n, body, status, why, o)
               /\ UNCHANGED req
       IN
       IF \/ p.out_trade_no = "" \/ p.sign = "" \/ p.pid = ""
          \/ p.trade_no = "" \/ p.money = <<>>
       THEN Answer("fail", 400, "rejected")
       ELSE IF p.sign_type # "" /\ ToUpperCase(p.sign_type) # "MD5"
       THEN Answer("fail", 400, "rejected")
       ELSE IF n.env.secret = "" THEN Answer("fail", 500, "config")
       ELSE IF n.env.pid = "" THEN Answer("fail", 500, "config")
       ELSE IF p.pid # n.env.pid THEN Answer("fail", 400, "rejected")
       ELSE IF ~Verified[n] THEN Answer("fail", 400, "rejected")
       ELSE IF ~n.db THEN Answer("", 500, "unhandled")
       ELSE IF o = NULL THEN Answer("fail", 400, "rejected")
       ELSE IF MethodMismatch(o) THEN Answer("fail", 400, "rejected")
       ELSE IF AmountMismatch(toCents(orders[o].totalAmount), ReceivedCents[n])
       THEN Answer("fail", 400, "amount")
       ELSE IF orders[o].status \in {"completed", "paid"}
       THEN Answer("success", 200, "duplicate")
       ELSE IF NotPaid(p)
       THEN Answer("success", 200, "not_success")
       ELSE IF orders[o].status # "pending"
       THEN Answer("success", 200, "not_pending")
       ELSE /\ req' = [req EXCEPT ![s] =
                         [Idle EXCEPT !.op = "notify", !.pc = "handle", !.oid = o,
                                      !.trade = p.trade_no, !.tag = n.tag,
                                      !.amt = AmountClass(o, n.mils)]]
            /\ out' = NoOut
    /\ UNCHANGED <<orders, cards, salesCount, now, nextOrder>>
    /\ Observe({})

SlotResponse(s, body, status, why) ==
    [op |-> "notify", ok |-> (body = "success"), body |-> body, status |-> status,
     why |-> why, oid |-> req[s].oid, tag |-> req[s].tag, amt |-> req[s].amt,
     user |-> "", shown |-> {}, notFound |-> {}, swept |-> FALSE]

\* lines 213-227 with handlePaymentSuccess: true -> "success"; a failed or
\* empty conditional update makes it return false
notifyHandle(s, dbOk) ==
    /\ req[s].op = "notify" /\ req[s].pc = "handle"
    /\ LET hit == {o \in OrderIds : PayableByNo(o, OrderNo(req[s].oid))} IN
       IF dbOk /\ hit # {} THEN
            LET o == CHOOSE x \in hit : TRUE IN
            /\ SalesWithinBound(o)
            /\ PaymentSuccessTx(o, req[s].trade)
            /\ req' = [req EXCEPT ![s] = Idle]
            /\ out' = SlotResponse(s, "success", 200, "paid")
            /\ Observe({o})
       ELSE
            /\ req' = [req EXCEPT ![s] = [@ EXCEPT !.pc = "reread"]]
            /\ out' = NoOut
            /\ UNCHANGED <<orders, cards, salesCount>>
            /\ Observe({})
    /\ UNCHANGED <<now, nextOrder>>

\* lines 228-267: the second look at the order
notifyReread(s, dbOk) ==
    /\ req[s].op = "notify" /\ req[s].pc = "reread"
    /\ LET found == FindByOrderNo(OrderNo(req[s].oid)) IN
       out' = IF ~dbOk THEN SlotResponse(s, "fail", 500, "exception")
              ELSE IF \E o \in found : orders[o].status \in {"completed", "paid"}
              THEN SlotResponse(s, "success", 200, "confirmed")
              ELSE SlotResponse(s, "fail", 500, "lost")
    /\ req' = [req EXCEPT ![s] = Idle]
    /\ UNCHANGED <<orders, cards, salesCount, now, nextOrder>>
    /\ Observe({})

(***************************************************************************)
(* Refunds (lib/actions/orders.ts, lib/payment/ldc.ts)                     *)
(***************************************************************************)
\* String.prototype.toLowerCase on the LDC_REFUND_MODE values met here
ToLowerCase(t) == IF t = "DISABLED" THEN "disabled"
                  ELSE IF t = "CLIENT" THEN "client" ELSE t

getRefundMode(env) ==
    IF ToLowerCase(env.mode) = "disabled" THEN "disabled"
    ELSE IF ToLowerCase(env.mode) = "client" THEN "client"
    ELSE IF env.proxy # "" THEN "proxy"
    ELSE "client"

isRefundEnabled(env) == getRefundMode(env) # "disabled"

MIN_REASON_LENGTH == 5

\* String.prototype.trim
Trim(cs) == TrimRight(TrimLeft(cs))

\* eq(orders.orderNo, orderNo) AND eq(orders.userId, user.id)
OwnedByNo(o, no, u) == Exists(o) /\ OrderNo(o) = no /\ orders[o].userId = u.id

\* lines 528-559 of requestRefund: the checks and the read of the order
requestRefundStart(s, u, no, reason, env) ==
    /\ Free(s)
    /\ LET found == {o \in OrderIds : OwnedByNo(o, no, u)}
           o     == IF found = {} THEN NULL ELSE CHOOSE x \in found : TRUE
           Fail(why) == /\ out' = Result("requestRefund", FALSE, why, o)
                        /\ UNCHANGED req
       IN
       IF ~isRefundEnabled(env) THEN Fail("disabled")
       ELSE IF ~IsLinuxDoUser(u) THEN Fail("login")
       ELSE IF Len(Trim(reason)) < MIN_REASON_LENGTH THEN Fail("reason")
       ELSE IF o = NULL THEN Fail("no_order")
       ELSE IF orders[o].status # "completed" THEN Fail("not_completed")
       ELSE /\ req' = [req EXCEPT ![s] =
                         [Idle EXCEPT !.op = "requestRefund", !.pc = "write",
                                      !.oid = o, !.reason = reason]]
            /\ out' = NoOut
    /\ UNCHANGED <<orders, cards, salesCount, now, nextOrder>>
    /\ Observe({})

\* update(orders).set({status: ...}).where(eq(orders.id, id))
WithStatus(id, status) ==
    [o \in OrderIds |->
        IF Exists(o) /\ o = id THEN [orders[o] EXCEPT !.status = status]
        ELSE orders[o]]

\* update(orders).set({status: "refund_pending", refundReason: reason.trim(),
\*   refundRequestedAt: new Date()}).where(eq(orders.id, order.id))
RefundRequested(id, reason) ==
    [o \in OrderIds |->
        IF Exists(o) /\ o = id
        THEN [orders[o] EXCEPT !.status = "refund_pending",
                               !.refundReason = Trim(reason),
                               !.refundRequestedAt = now]
        ELSE orders[o]]

\* lines 561-574 of requestRefund: the update by id
requestRefundWrite(s) ==
    /\ req[s].op = "requestRefund" /\ req[s].pc = "write"
    /\ orders' = RefundRequested(req[s].oid, req[s].reason)
    /\ req' = [req EXCEPT ![s] = Idle]
    /\ out' = Result("requestRefund", TRUE, "requested", req[s].oid)
    /\ UNCHANGED <<cards, salesCount, now, nextOrder>>
    /\ Observe({})

\* the checks shared in shape by approveRefund, rejectRefund and
\* markOrderRefunded: the row read by id must be in refund_pending
RefundReview(op, s, u, id, next, needsTrade) ==
    /\ Free(s)
    /\ LET Fail(why) == /\ out' = Result(op, FALSE, why, id)
                        /\ UNCHANGED req
       IN
       IF ~requireAdmin(u) THEN Fail("not_admin")
       ELSE IF ~Exists(id) THEN Fail("no_order")
       ELSE IF orders[id].status # "refund_pending" THEN Fail("not_refund_pending")
       ELSE IF needsTrade /\ orders[id].tradeNo = NoTrade THEN Fail("no_trade")
       ELSE /\ req' = [req EXCEPT ![s] =
                         [Idle EXCEPT !.op = op, !.pc = next, !.oid = id]]
            /\ out' = NoOut
    /\ UNCHANGED <<orders, cards, salesCount, now, nextOrder>>
    /\ Observe({})

\* lines 594-621 of approveRefund
approveRefundStart(s, u, id, env) ==
    IF ~isRefundEnabled(env) THEN
        /\ Free(s)
        /\ out' = Result("approveRefund", FALSE, "disabled", id)
        /\ UNCHANGED <<orders, cards, salesCount, now, nextOrder, req>>
        /\ Observe({})
    ELSE RefundReview("approveRefund", s, u, id, "gateway", TRUE)

\* lines 623-643 of approveRefund: refundOrder answers code 1 ("ok"), another
\* code ("refused") or throws ("error"); after code 1 the order is updated
approveRefundGateway(s, answer) ==
    /\ req[s].op = "approveRefund" /\ req[s].pc = "gateway"
    /\ IF answer = "ok" THEN
            /\ orders' = WithStatus(req[s].oid, "refunded")
            /\ req' = [req EXCEPT ![s] = [@ EXCEPT !.pc = "cards"]]
            /\ out' = NoOut
       ELSE
            /\ out' = Result("approveRefund", FALSE, answer, req[s].oid)
            /\ req' = [req EXCEPT ![s] = Idle]
            /\ UNCHANGED orders
    /\ UNCHANGED <<cards, salesCount, now, nextOrder>>
    /\ Observe({})

\* update(cards).set({status: "available", orderId: null, soldAt: null})
\*   .where(eq(cards.orderId, orderId))
ReturnedCards(id) ==
    [c \in Cards |->
        IF cards[c].orderId = id
        THEN [cards[c] EXCEPT !.status = "available", !.orderId = NULL]
        ELSE cards[c]]

\* lines 645-660 of approveRefund
approveRefundCards(s) ==
    /\ req[s].op = "approveRefund" /\ req[s].pc = "cards"
    /\ cards' = ReturnedCards(req[s].oid)
    /\ req' = [req EXCEPT ![s] = Idle]
    /\ out' = Result("approveRefund", TRUE, "refunded", req[s].oid)
    /\ UNCHANGED <<orders, salesCount, now, nextOrder>>
    /\ Observe({})

\* lines 677-694 of rejectRefund
rejectRefundStart(s, u, id) ==
    RefundReview("rejectRefund", s, u, id, "write", FALSE)

\* lines 696-708 of rejectRefund
rejectRefundWrite(s) ==
    /\ req[s].op = "rejectRefund" /\ req[s].pc = "write"
    /\ orders' = WithStatus(req[s].oid, "refund_rejected")
    /\ req' = [req EXCEPT ![s] = Idle]
    /\ out' = Result("rejectRefund", TRUE, "rejected", req[s].oid)
    /\ UNCHANGED <<cards, salesCount, now, nextOrder>>
    /\ Observe({})

\* lines 822-839 of markOrderRefunded
markOrderRefundedStart(s, u, id) ==
    RefundReview("markOrderRefunded", s, u, id, "order", FALSE)

\* lines 841-850 of markOrderRefunded
markOrderRefundedOrder(s) ==
    /\ req[s].op = "markOrderRefunded" /\ req[s].pc = "order"
    /\ orders' = WithStatus(req[s].oid, "refunded")
    /\ req' = [req EXCEPT ![s] = [@ EXCEPT !.pc = "cards"]]
    /\ out' = NoOut
    /\ UNCHANGED <<cards, salesCount, now, nextOrder>>
    /\ Observe({})

\* lines 852-865 of markOrderRefunded
markOrderRefundedCards(s) ==
    /\ req[s].op = "markOrderRefunded" /\ req[s].pc = "cards"
    /\ cards' = ReturnedCards(req[s].oid)
    /\ req' = [req EXCEPT ![s] = Idle]
    /\ out' = Result("markOrderRefunded", TRUE, "refunded", req[s].oid)
    /\ UNCHANGED <<orders, salesCount, now, nextOrder>>
    /\ Observe({})

\* lines 645-667 of approveRefund: the update of the cards throws; the catch
\* reports the failure and the update of the order stays committed
approveRefundCardsFail(s) ==
    /\ req[s].op = "approveRefund" /\ req[s].pc = "cards"
    /\ req' = [req EXCEPT ![s] = Idle]
    /\ out' = Result("approveRefund", FALSE, "error", req[s].oid)
    /\ UNCHANGED <<orders, cards, salesCount, now, nextOrder>>
    /\ Observe({})

\* lines 852-872 of markOrderRefunded: the update of the cards throws
markOrderRefundedCardsFail(s) ==
    /\ req[s].op = "markOrderRefunded" /\ req[s].pc = "cards"
    /\ req' = [req EXCEPT ![s] = Idle]
    /\ out' = Result("markOrderRefunded", FALSE, "error", req[s].oid)
    /\ UNCHANGED <<orders, cards, salesCount, now, nextOrder>>
    /\ Observe({})

\* What the gateway (or the way to it) does with a refund call: a JSON body
\* with a code, a body that is not JSON (an error page, a Cloudflare
\* challenge), a JSON content type with a body that does not parse, no
\* response at all, or no call because the merchant id or key is not set.
GatewayReplies ==
    { [kind |-> "json", code |-> 1], [kind |-> "json", code |-> 0],
      [kind |-> "json", code |-> -1], [kind |-> "html", code |-> 0],
      [kind |-> "challenge", code |-> 0], [kind |-> "garbled", code |-> 0],
      [kind |-> "down", code |-> 0], [kind |-> "unconfigured", code |-> 0] }

\* refundOrder (lib/payment/ldc.ts): <<code>> when it returns the parsed
\* body, <<>> when it throws
refundOrder(reply) == IF reply.kind = "json" THEN <<reply.code>> ELSE <<>>

\* every body that parses counts as a refund made
RefundAnswerAnyCode(reply) ==
    IF refundOrder(reply) = <<>> THEN "error" ELSE "ok"

\* lines 623-632 of approveRefund: a throw is caught as an error, a code
\* other than 1 is a refusal
RefundAnswer(reply) ==
    LET refundResult == refundOrder(reply) IN
    IF refundResult = <<>> THEN "error"
    ELSE IF refundResult[1] # 1 THEN "refused"
    ELSE "ok"

(***************************************************************************)
(* getUserOrders and getOrderByNo: one query each                          *)
(***************************************************************************)
\* every card of the order, whatever its status and the order's
cardsToShowAll(o) == CardsOf(o)

\* order.status === "completed" || order.status === "paid"
\*   ? order.cards.filter((c) => c.status === "sold") : []
cardsToShow(o) ==
    IF orders[o].status \in {"completed", "paid"}
    THEN {c \in CardsOf(o) : cards[c].status = "sold"}
    ELSE {}

\* eq(orders.userId, user.id)
OrdersOf(u) == {o \in OrderIds : Exists(o) /\ orders[o].userId = u.id}

getUserOrders(u) ==
    /\ out' = IF ~IsLinuxDoUser(u)
              THEN [Result("getUserOrders", FALSE, "login", NULL) EXCEPT !.user = u.id]
              ELSE [Result("getUserOrders", TRUE, "", NULL) EXCEPT
                       !.user = u.id,
                       !.shown = {<<o, c>> \in OrderIds \X Cards :
                                     o \in OrdersOf(u) /\ c \in cardsToShow(o)}]
    /\ UNCHANGED <<orders, cards, salesCount, now, nextOrder, req>>
    /\ Observe({})

getOrderByNo(u, no) ==
    /\ LET found == {o \in OrderIds : OwnedByNo(o, no, u)}
           o     == IF found = {} THEN NULL ELSE CHOOSE x \in found : TRUE
           Reply(ok, why) == [Result("getOrderByNo", ok, why, o) EXCEPT !.user = u.id]
       IN
       out' = IF ~IsLinuxDoUser(u) THEN Reply(FALSE, "login")
              ELSE IF o = NULL THEN Reply(FALSE, "no_order")
              ELSE [Reply(TRUE, "") EXCEPT !.shown = {<<o, c>> : c \in cardsToShow(o)}]
    /\ UNCHANGED <<orders, cards, salesCount, now, nextOrder, req>>
    /\ Observe({})

(***************************************************************************)
(* deleteAdminOrders: one transaction                                      *)
(***************************************************************************)
MAX_DELETE_BATCH == 200

\* the id of an order as the text the admin console sends
IdText(o) == DigitsOf(o)

\* the ids as they are sent, blank ones included
UniqueIdsAsSent(ids) == {ids[i] : i \in 1..Len(ids)}

\* Array.from(new Set(orderIds.map((id) => id.trim()).filter(Boolean)))
UniqueIds(ids) == {Trim(ids[i]) : i \in 1..Len(ids)} \ {<<>>}

\* the release without its status filter: every card of the deleted orders
CardsAfterDeleteAnyStatus(found) ==
    [c \in Cards |->
        IF cards[c].orderId \in found
        THEN [cards[c] EXCEPT !.status = "available", !.orderId = NULL]
        ELSE cards[c]]

\* the delete without the release before it
CardsAfterDeleteNoRelease(found) ==
    [c \in Cards |->
        IF cards[c].orderId \in found
        THEN [cards[c] EXCEPT !.orderId = NULL]
        ELSE cards[c]]

\* The release of the locked cards of the deleted orders, then the delete:
\* the foreign key of the cards left pointing at them is set to null.
CardsAfterDelete(found) ==
    [c \in Cards |->
        IF IsLockedFor(c, found)
        THEN [cards[c] EXCEPT !.status = "available", !.orderId = NULL]
        ELSE IF cards[c].orderId \in found
        THEN [cards[c] EXCEPT !.orderId = NULL]
        ELSE cards[c]]

\* the result reports success whatever was deleted
DeletedAnyway(deleted, notFoundIds) ==
    [Result("deleteAdminOrders", TRUE, "deleted", NULL)
        EXCEPT !.status = Cardinality(deleted), !.notFound = notFoundIds]

\* lines 255-282: the result after the transaction
Deleted(deleted, notFoundIds) ==
    [Result("deleteAdminOrders", deleted # {},
            IF deleted = {} THEN "none_deleted" ELSE "deleted", NULL)
        EXCEPT !.status = Cardinality(deleted), !.notFound = notFoundIds]

deleteAdminOrders(u, ids) ==
    /\ LET wanted == UniqueIds(ids)
           found  == {o \in OrderIds : Exists(o) /\ IdText(o) \in wanted}
           Fail(why) == /\ out' = Result("deleteAdminOrders", FALSE, why, NULL)
                        /\ UNCHANGED <<orders, cards>>
       IN
       IF ~requireAdmin(u) THEN Fail("not_admin")
       ELSE IF wanted = {} THEN Fail("none_selected")
       ELSE IF Cardinality(wanted) > MAX_DELETE_BATCH THEN Fail("too_many")
       ELSE IF found = {}
       THEN /\ out' = Deleted({}, wanted)
            /\ UNCHANGED <<orders, cards>>
       ELSE /\ cards' = CardsAfterDelete(found)
            /\ orders' = [o \in OrderIds |-> IF o \in found THEN NoOrder
                                             ELSE orders[o]]
            /\ out' = Deleted(found, wanted \ {IdText(o) : o \in found})
    /\ UNCHANGED <<salesCount, now, nextOrder, req>>
    /\ Observe({})

\* The same call statement by statement, for calls that overlap: the checks
\* and the SELECT of lines 204-233 ...
deleteAdminOrdersSelect(s, u, ids) ==
    /\ Free(s)
    /\ LET wanted == UniqueIds(ids)
           found  == {o \in OrderIds : Exists(o) /\ IdText(o) \in wanted}
           Fail(why) == out' = Result("deleteAdminOrders", FALSE, why, NULL)
       IN
       IF ~requireAdmin(u) THEN Fail("not_admin") /\ UNCHANGED req
       ELSE IF wanted = {} THEN Fail("none_selected") /\ UNCHANGED req
       ELSE IF Cardinality(wanted) > MAX_DELETE_BATCH
       THEN Fail("too_many") /\ UNCHANGED req
       ELSE IF found = {}
       THEN out' = Deleted({}, wanted) /\ UNCHANGED req
       ELSE /\ req' = [req EXCEPT ![s] =
                         [Idle EXCEPT !.op = "deleteAdminOrders", !.pc = "delete",
                                      !.snap = found,
                                      !.rows = wanted \ {IdText(o) : o \in found}]]
            /\ out' = NoOut
    /\ UNCHANGED <<orders, cards, salesCount, now, nextOrder>>
    /\ Observe({})

\* ... and the release, the DELETE ... RETURNING and the commit of lines
\* 235-283; the DELETE removes the rows that are still there
deleteAdminOrdersDelete(s) ==
    /\ req[s].op = "deleteAdminOrders" /\ req[s].pc = "delete"
    /\ LET deleted == {o \in req[s].snap : Exists(o)} IN
        /\ cards' = CardsAfterDelete(deleted)
        /\ orders' = [o \in OrderIds |-> IF o \in deleted THEN NoOrder
                                         ELSE orders[o]]
        /\ out' = Deleted(deleted, req[s].rows)
    /\ req' = [req EXCEPT ![s] = Idle]
    /\ UNCHANGED <<salesCount, now, nextOrder>>
    /\ Observe({})

(***************************************************************************)
(* The clock                                                               *)
(***************************************************************************)
Tick ==
    /\ now < MaxTime
    /\ now' = now + 1
    /\ out' = NoOut
    /\ UNCHANGED <<orders, cards, salesCount, nextOrder, req>>
    /\ Observe({})

(***************************************************************************)
(* Specification                                                           *)
(***************************************************************************)
Init ==
    /\ orders = [o \in OrderIds |-> NoOrder]
    /\ cards = [c \in Cards |-> [productId |-> CardProduct(c), status |-> "available",
                                 orderId |-> NULL]]
    /\ salesCount = [p \in Products |-> 0]
    /\ now = 0
    /\ nextOrder = 0
    /\ req = [s \in Slots |-> Idle]
    /\ out = NoOut
    /\ soldTo = [c \in Cards |-> {}]
    /\ refundedOnce = {}
    /\ completions = [o \in OrderIds |-> 0]
    /\ lastExpireCheck = 0 - EXPIRE_CHECK_INTERVAL
    /\ refundEnv = [mode |-> "", proxy |-> ""]

\* the createOrder calls tried: <<caller, productId, quantity, paymentMethod>>
Purchases ==
    { <<User1, "p1", 1, "ldc">>, <<User2, "p1", 2, "ldc">> }

CreateInputs ==
    Purchases
    \cup { <<User1, "p1", 2, "ldc">>, <<User2, "p2", 1, "alipay">>,
           <<Anonymous, "p1", 1, "ldc">>, <<Admin, "p1", 1, "ldc">>,
           <<User1, "p0", 1, "ldc">>, <<User1, "p1", 0, "ldc">>,
           <<User1, "p1", 3, "ldc">> }

\* the gateway's notifications of a payment of 5.00 or 10.00
Payments ==
    { Request("genuine", Notice(OrderNo(o), "T1", m[1]), m[2]) :
        o \in OrderIds, m \in {Five, Ten} }

RefundEnv == [mode |-> "", proxy |-> ""]

Reason == <<"b", "r", "o", "k", "e", "n">>

\* the selections of the admin console: one order, or both with a repeat
Selections == { << <<"1">> >>, << <<"2">>, <<" ", "1">>, <<"2">> >> }

\* no request is in flight
Serial == \A t \in Slots : req[t].pc = "idle"

\* the step changes more than the response
Changes == ~UNCHANGED <<orders, cards, salesCount, now, nextOrder, req>>

\* The whole system.  Requests are served one at a time, between them and
\* between their statements run the clock and the operations that are one
\* transaction; calls that are answered without any write are left out.
Next ==
    \/ Tick
    \/ releaseExpiredOrders
    \/ \E id \in OrderIds : adminCompleteOrder(Admin, id) /\ Changes
    \/ \E ids \in Selections : deleteAdminOrders(Admin, ids) /\ Changes
    \/ \E s \in Slots, i \in Purchases :
            Serial /\ createOrderStart(s, i[1], i[2], i[3], i[4])
    \/ \E s \in Slots : createOrderSelect(s)
    \/ \E s \in Slots : createOrderLock(s)
    \/ \E s \in Slots, linkOk \in BOOLEAN : createOrderCommit(s, linkOk)
    \/ \E s \in Slots, n \in Payments : Serial /\ notifyStart(s, n) /\ Changes
    \/ \E s \in Slots, dbOk \in BOOLEAN : notifyHandle(s, dbOk)
    \/ \E s \in Slots, dbOk \in BOOLEAN : notifyReread(s, dbOk)
    \/ \E s \in Slots, u \in {User1, User2}, id \in OrderIds :
            /\ Serial
            /\ requestRefundStart(s, u, OrderNo(id), Reason, RefundEnv)
            /\ Changes
    \/ \E s \in Slots : requestRefundWrite(s)
    \/ \E s \in Slots, id \in OrderIds :
            Serial /\ approveRefundStart(s, Admin, id, RefundEnv) /\ Changes
    \/ \E s \in Slots, answer \in {"ok", "refused", "error"} :
            approveRefundGateway(s, answer)
    \/ \E s \in Slots : approveRefundCards(s)
    \/ \E s \in Slots, id \in OrderIds :
            Serial /\ rejectRefundStart(s, Admin, id) /\ Changes
    \/ \E s \in Slots : rejectRefundWrite(s)
    \/ \E s \in Slots, id \in OrderIds :
            Serial /\ markOrderRefundedStart(s, Admin, id) /\ Changes
    \/ \E s \in Slots : markOrderRefundedOrder(s)
    \/ \E s \in Slots : markOrderRefundedCards(s)

Spec == Init /\ [][Next]_vars

\* Checkout: concurrent createOrder calls, valid and invalid, with the clock,
\* the sweep and manual completion.
NextCheckout ==
    \/ Tick
    \/ releaseExpiredOrders
    \/ \E id \in OrderIds : adminCompleteOrder(Admin, id)
    \/ \E s \in Slots, i \in CreateInputs : createOrderStart(s, i[1], i[2], i[3], i[4])
    \/ \E s \in Slots : createOrderSelect(s)
    \/ \E s \in Slots : createOrderLock(s)
    \/ \E s \in Slots, linkOk \in BOOLEAN : createOrderCommit(s, linkOk)

SpecCheckout == Init /\ [][NextCheckout]_vars

\* Deliveries of the gateway's notification, one after another and at the
\* same time, to a database that answers.
NextWebhook ==
    \/ \E s \in Slots, i \in Purchases :
            Serial /\ createOrderStart(s, i[1], i[2], i[3], i[4])
    \/ \E s \in Slots : createOrderSelect(s)
    \/ \E s \in Slots : createOrderLock(s)
    \/ \E s \in Slots : createOrderCommit(s, TRUE)
    \/ \E s \in Slots, n \in Payments : notifyStart(s, n)
    \/ \E s \in Slots : notifyHandle(s, TRUE)
    \/ \E s \in Slots : notifyReread(s, TRUE)

SpecWebhook == Init /\ [][NextWebhook]_vars

\* The webhook under every request tried, on orders of each payment method
\* and status the checkout, the sweep and the webhook itself produce.
NextNotify ==
    \/ Tick
    \/ releaseExpiredOrders
    \/ \E s \in Slots, i \in Purchases \cup { <<User2, "p2", 1, "alipay">> } :
            Serial /\ createOrderStart(s, i[1], i[2], i[3], i[4])
    \/ \E s \in Slots : createOrderSelect(s)
    \/ \E s \in Slots : createOrderLock(s)
    \/ \E s \in Slots : createOrderCommit(s, TRUE)
    \/ \E s \in Slots, n \in NotifyInputs : Serial /\ notifyStart(s, n)
    \/ \E s \in Slots, dbOk \in BOOLEAN : notifyHandle(s, dbOk)
    \/ \E s \in Slots, dbOk \in BOOLEAN : notifyReread(s, dbOk)

SpecNotify == Init /\ [][NextNotify]_vars

\* no order has been placed
NoOrderYet == nextOrder = 0

\* refunds switched off by LDC_REFUND_MODE
RefundOff == [mode |-> "DISABLED", proxy |-> ""]

\* a reason of exactly five characters between blanks, and one of six
\* characters of which three are left after trimming
RefundReasons == { <<" ", "b", "r", "o", "k", "e", " ">>,
                   <<" ", "b", "a", "d", " ", " ">> }

\* The life of an order after checkout: payment notifications for orders in
\* every status, expiry, and the refund operations called by the owner, by
\* others and by the admin, at the same time, with every answer of the
\* gateway and a database that may fail at the second write; and the order
\* queries by every caller.
NextRefund ==
    \/ Tick
    \/ releaseExpiredOrders
    \/ \E s \in Slots :
            Serial /\ NoOrderYet /\ createOrderStart(s, User1, "p1", 1, "ldc")
    \/ \E s \in Slots : createOrderSelect(s)
    \/ \E s \in Slots : createOrderLock(s)
    \/ \E s \in Slots : createOrderCommit(s, TRUE)
    \/ \E s \in Slots, n \in Payments : Serial /\ notifyStart(s, n)
    \/ \E s \in Slots : notifyHandle(s, TRUE)
    \/ \E s \in Slots : notifyReread(s, TRUE)
    \/ \E s \in Slots, u \in {Anonymous, User1, User2}, id \in OrderIds,
          reason \in RefundReasons, env \in {RefundEnv, RefundOff} :
            requestRefundStart(s, u, OrderNo(id), reason, env)
    \/ \E s \in Slots : requestRefundWrite(s)
    \/ \E s \in Slots, u \in {Admin, User1}, id \in OrderIds,
          env \in {RefundEnv, RefundOff} :
            approveRefundStart(s, u, id, env)
    \/ \E s \in Slots, reply \in GatewayReplies :
            approveRefundGateway(s, RefundAnswer(reply))
    \/ \E s \in Slots : approveRefundCards(s)
    \/ \E s \in Slots : approveRefundCardsFail(s)
    \/ \E s \in Slots, u \in {Admin, User1}, id \in OrderIds :
            rejectRefundStart(s, u, id)
    \/ \E s \in Slots : rejectRefundWrite(s)
    \/ \E s \in Slots, u \in {Admin, User1}, id \in OrderIds :
            markOrderRefundedStart(s, u, id)
    \/ \E s \in Slots : markOrderRefundedOrder(s)
    \/ \E s \in Slots : markOrderRefundedCards(s)
    \/ \E s \in Slots : markOrderRefundedCardsFail(s)

SpecRefund == Init /\ [][NextRefund]_vars

\* The order queries by every caller, between the statements of the
\* operations that write, which are called one at a time.
NextQuery ==
    \/ Tick
    \/ releaseExpiredOrders
    \/ \E id \in OrderIds : adminCompleteOrder(Admin, id) /\ Changes
    \/ \E ids \in Selections : deleteAdminOrders(Admin, ids) /\ Changes
    \/ \E s \in Slots, i \in Purchases :
            Serial /\ NoOrderYet /\ createOrderStart(s, i[1], i[2], i[3], i[4])
    \/ \E s \in Slots : createOrderSelect(s)
    \/ \E s \in Slots : createOrderLock(s)
    \/ \E s \in Slots : createOrderCommit(s, TRUE)
    \/ \E s \in Slots, n \in Payments : Serial /\ notifyStart(s, n) /\ Changes
    \/ \E s \in Slots : notifyHandle(s, TRUE)
    \/ \E s \in Slots : notifyReread(s, TRUE)
    \/ \E s \in Slots, u \in {User1, User2}, id \in OrderIds :
            /\ Serial
            /\ requestRefundStart(s, u, OrderNo(id), Reason, RefundEnv)
            /\ Changes
    \/ \E s \in Slots : requestRefundWrite(s)
    \/ \E s \in Slots, id \in OrderIds :
            Serial /\ approveRefundStart(s, Admin, id, RefundEnv) /\ Changes
    \/ \E s \in Slots : approveRefundGateway(s, "ok")
    \/ \E s \in Slots : approveRefundCards(s)
    \/ \E s \in Slots, id \in OrderIds :
            Serial /\ rejectRefundStart(s, Admin, id) /\ Changes
    \/ \E s \in Slots : rejectRefundWrite(s)
    \/ \E u \in {Anonymous, User1, User2, Admin} : getUserOrders(u)
    \/ \E u \in {Anonymous, User1, User2}, id \in OrderIds :
            getOrderByNo(u, OrderNo(id))

SpecQuery == Init /\ [][NextQuery]_vars

\* Expiry: orders nobody pays for, the clock, and sweeps called one after
\* another and at the same time, from createOrder, on their own and from
\* the product queries.
NextSweep ==
    \/ Tick
    \/ \E s \in Slots, i \in Purchases :
            Serial /\ createOrderStart(s, i[1], i[2], i[3], i[4])
    \/ \E s \in Slots : createOrderSelect(s)
    \/ \E s \in Slots : createOrderLock(s)
    \/ \E s \in Slots : createOrderCommit(s, TRUE)
    \/ \E s \in Slots : sweepOrders(s)
    \/ \E s \in Slots : sweepCommit(s)
    \/ \E due \in BOOLEAN : lazyReleaseExpiredOrders(due)

SpecSweep == Init /\ [][NextSweep]_vars

\* sweeps keep being called and the ones begun are finished
SpecSweepFair ==
    /\ SpecSweep
    /\ WF_vars(\E s \in Slots : sweepOrders(s))
    /\ WF_vars(\E s \in Slots : sweepCommit(s))

\* the id lists sent to deleteAdminOrders: the selections, lists without any
\* id, an id of no order, one order with such an id, and lists of 201
\* entries with 201 and with 200 different ids
DeleteInputs ==
    LET Long(last) == [i \in 1..(MAX_DELETE_BATCH + 1) |->
                          IF i > MAX_DELETE_BATCH THEN DigitsOf(last) ELSE DigitsOf(i)]
    IN  Selections
        \cup { <<>>, << <<>>, <<" ", " ">> >>, << <<"7">> >>,
               << <<"1", " ">>, <<"7">>, <<>> >>,
               Long(MAX_DELETE_BATCH + 1), Long(1) }

\* Deletions by the admin console, one after another and at the same time,
\* of orders that are pending, completed or gone.
NextDelete ==
    \/ \E s \in Slots, i \in Purchases :
            Serial /\ createOrderStart(s, i[1], i[2], i[3], i[4])
    \/ \E s \in Slots : createOrderSelect(s)
    \/ \E s \in Slots : createOrderLock(s)
    \/ \E s \in Slots : createOrderCommit(s, TRUE)
    \/ \E id \in OrderIds : Serial /\ adminCompleteOrder(Admin, id) /\ Changes
    \/ \E s \in Slots, u \in {Admin, User1}, ids \in DeleteInputs :
            deleteAdminOrdersSelect(s, u, ids)
    \/ \E s \in Slots : deleteAdminOrdersDelete(s)

SpecDelete == Init /\ [][NextDelete]_vars

(***************************************************************************)
(* generateSign and verifySign on their own                                *)
(***************************************************************************)
\* A parameter set written out in characters: what the gateway sends for a
\* payment, with and without the optional item name.
SignForms ==
    LET f == [pid |-> <<"1", "0", "0", "1">>, trade_no |-> <<"T", "1">>,
              out_trade_no |-> <<"L", "D", "1">>, type |-> <<"e", "p", "a", "y">>,
              name |-> <<"a", "=", "b">>, money |-> <<"5", ".", "0", "0">>,
              trade_status |-> <<"O", "K">>]
    IN  { f, [f EXCEPT !.name = <<>>],
          [pid |-> <<"1", "0", "0", "1">>, B |-> <<"1">>, a1 |-> <<"2">>,
           a_ |-> <<"3">>] }

\* the secrets tried: the merchant's, and two that differ from it
SignSecrets == {Secret, "k3y2", "K3y"}

\* the characters a value is changed to
SignAlphabet == {"0", "1", "a", "&", "="}

\* the parameters as generateSign and verifySign receive them
SignParams(form, sign) ==
    [k \in DOMAIN form \cup {"sign", "sign_type"} |->
        IF k = "sign" THEN sign
        ELSE IF k = "sign_type" THEN "MD5"
        ELSE IF k = "money" THEN form[k]
        ELSE Str(form[k])]

\* sign = generateSign(P, S)
signForm(form, secret) ==
    /\ out' = [op |-> "generateSign", form |-> form, key |-> secret,
               sign |-> generateSign(SignParams(form, ""), secret),
               changed |-> {}, used |-> "", ok |-> FALSE]
    /\ UNCHANGED <<orders, cards, salesCount, now, nextOrder, req>>
    /\ Observe({})

\* one character of the value of k becomes ch
changeCharacter(k, i, ch) ==
    /\ out.op = "generateSign" /\ out.changed = {}
    /\ k \in DOMAIN out.form /\ i \in DOMAIN out.form[k]
    /\ out.form[k][i] # ch
    /\ out' = [out EXCEPT !.form[k][i] = ch, !.changed = {k}]
    /\ UNCHANGED <<orders, cards, salesCount, now, nextOrder, req>>
    /\ Observe({})

\* verifySign(P, secret) with the signature made before
verifyForm(secret) ==
    /\ out.op = "generateSign"
    /\ out' = [out EXCEPT
                  !.op = "verifySign", !.used = secret,
                  !.ok = verifySign(SignParams(out.form, out.sign), secret)]
    /\ UNCHANGED <<orders, cards, salesCount, now, nextOrder, req>>
    /\ Observe({})

NextSign ==
    \/ \E form \in SignForms, secret \in SignSecrets : signForm(form, secret)
    \/ \E form \in SignForms : \E k \in DOMAIN form : \E i \in DOMAIN form[k] :
        \E ch \in SignAlphabet : changeCharacter(k, i, ch)
    \/ \E secret \in SignSecrets : verifyForm(secret)

SpecSign == Init /\ [][NextSign]_vars

(***************************************************************************)
(* Properties                                                              *)
(***************************************************************************)
StockOf(p) == {c \in Cards : CardProduct(c) = p}

HeldBy(o, status) == {c \in Cards : cards[c].orderId = o /\ cards[c].status = status}

\* C1: no overselling.  A step that inserts an order locks for it exactly
\* `quantity` cards of its product, each of them available and without an
\* order before the step, and touches no other card; and no step moves a card
\* from one order to another.  So the cards locked or sold never exceed the
\* stock and no card is locked for two orders.
C1_NoOverselling ==
    [][ /\ nextOrder' # nextOrder =>
            LET id == nextOrder' IN
            /\ Cardinality({c \in Cards : cards'[c].orderId = id
                                          /\ cards'[c].status = "locked"})
                 = orders'[id].quantity
            /\ \A c \in Cards :
                  IF cards'[c].orderId = id
                  THEN /\ cards[c].status = "available"
                       /\ cards[c].orderId = NULL
                       /\ cards[c].productId = orders'[id].productId
                  ELSE cards'[c] = cards[c]
        /\ \A c \in Cards :
              cards[c].orderId # NULL /\ cards'[c].orderId # NULL
                  => cards'[c].orderId = cards[c].orderId
      ]_vars

\* two createOrder calls on the same product whose demand exceeds its stock:
\* one holds the row locks, the other waits for a row among them
C1_Contention ==
    \E s, t \in Slots :
        /\ s # t
        /\ req[s].pc = "commit" /\ req[t].pc = "lock"
        /\ req[s].prod = req[t].prod
        /\ req[t].snap \cap req[s].rows # {}
        /\ req[s].qty + req[t].qty > Cardinality(StockOf(req[s].prod))

\* C2 as stated: no card reaches sold for two different orders.
C2_SoldToOneOrder == \A c \in Cards : Cardinality(soldTo[c]) <= 1

\* C2, amended: a card reaches sold for another order only after the order it
\* was sold to before has been refunded; of the orders a card was sold to, at
\* most one has never been refunded.
C2_ResoldOnlyAfterRefund ==
    \A c \in Cards : Cardinality(soldTo[c] \ refundedOnce) <= 1

\* a card sold to a second order, the first one refunded
C2_Resold ==
    \E c \in Cards :
        /\ Cardinality(soldTo[c]) = 2
        /\ cards[c].status = "sold"
        /\ soldTo[c] \cap refundedOnce # {}

RECURSIVE QuantitySum(_)
QuantitySum(S) ==
    IF S = {} THEN 0
    ELSE LET o == CHOOSE x \in S : TRUE
         IN  orders[o].quantity + QuantitySum(S \ {o})

CompletedOrders(p) ==
    {o \in OrderIds : Exists(o) /\ orders[o].status = "completed"
                      /\ orders[o].productId = p}

\* C3: webhook idempotence.  However often and however concurrently the
\* gateway's notification of an order is delivered, the completion transaction
\* commits at most once for the order, a completed order has exactly
\* `quantity` sold cards, the sales counter of a product is the sum of the
\* quantities of its completed orders, and every delivery of a notification
\* that matches the order is answered "success" with status 200.
C3_WebhookIdempotent ==
    /\ \A o \in OrderIds : completions[o] <= 1
    /\ \A o \in OrderIds :
          Exists(o) /\ orders[o].status = "completed"
              => /\ completions[o] = 1
                 /\ Cardinality(HeldBy(o, "sold")) = orders[o].quantity
    /\ \A p \in Products : salesCount[p] = QuantitySum(CompletedOrders(p))
    /\ out.op = "notify" /\ out.tag = "genuine" /\ out.amt = "near"
          => out.body = "success" /\ out.status = 200

\* a delivery that lost the race to a concurrent one and confirmed the order
\* by its second read
C3_ConcurrentDelivery ==
    /\ out.op = "notify" /\ out.why = "confirmed"
    /\ completions[out.oid] = 1
    /\ orders[out.oid].status = "completed"

LegalEdges ==
    { <<"pending", "completed">>, <<"pending", "expired">>,
      <<"completed", "refund_pending">>, <<"refund_pending", "refunded">>,
      <<"refund_pending", "refund_rejected">> }

\* C4: every change of the status of an order is one of the legal edges.
C4_LegalTransitions ==
    [][ \A o \in OrderIds :
            Exists(o) /\ orders'[o] # NoOrder
                      /\ orders'[o].status # orders[o].status
                => <<orders[o].status, orders'[o].status>> \in LegalEdges
      ]_vars

\* C5: the completion transaction commits once for an order the webhook has
\* completed (the order carries the gateway's trade number): a manual
\* completion of the same order finds nothing to update.
C5_CompletedOnce ==
    \A o \in OrderIds :
        Exists(o) /\ orders[o].tradeNo # NoTrade => completions[o] <= 1

\* C6 as stated: orderId is non-null iff the card is locked or sold.
C6_OrderIdIffHeld ==
    \A c \in Cards :
        cards[c].orderId # NULL <=> cards[c].status \in {"locked", "sold"}

\* C6, amended: an available card has no order, a locked card has one, a card
\* with an order is locked or sold and its order exists, and a sold card has
\* no order only when the order it was sold to has been deleted.
C6_OrderIdIffHeldUnlessDeleted ==
    \A c \in Cards :
        /\ cards[c].status = "available" => cards[c].orderId = NULL
        /\ cards[c].status = "locked" => cards[c].orderId # NULL
        /\ cards[c].orderId # NULL
              => cards[c].status \in {"locked", "sold"} /\ Exists(cards[c].orderId)
        /\ cards[c].status = "sold" /\ cards[c].orderId = NULL
              => \E o \in soldTo[c] : ~Exists(o)

\* a sold card left without an order by the deletion of its order, beside a
\* card that is locked for a pending order
C6_SoldCardOfDeletedOrder ==
    /\ \E c \in Cards : cards[c].status = "sold" /\ cards[c].orderId = NULL
    /\ \E c \in Cards : cards[c].status = "locked" /\ cards[c].orderId # NULL

\* C7: a completed or paid order has exactly `quantity` sold cards.
C7_SoldCountIsQuantity ==
    \A o \in OrderIds :
        Exists(o) /\ orders[o].status \in {"completed", "paid"}
            => Cardinality(HeldBy(o, "sold")) = orders[o].quantity

\* the response is to a notification that passes every check before the
\* amount: it is signed by the gateway for an existing order paid through it
ReachesAmountCheck(r) ==
    /\ r.op = "notify" /\ r.tag \in {"genuine", "unpaid"}
    /\ r.oid # NULL
    /\ orders[r.oid].paymentMethod = "ldc"

\* C8: the amount is accepted when it is within half a minor unit of the
\* total of the order (both round to the same number of minor units) and
\* refused with "fail" and status 400, the tables untouched, when it is no
\* number or more than half a minor unit away.
C8_AmountReconciled ==
    [][ ReachesAmountCheck(out') =>
            /\ out'.amt = "near" => out'.why # "amount"
            /\ out'.amt \in {"far", "bad"} =>
                  /\ out'.body = "fail" /\ out'.status = 400
                  /\ UNCHANGED <<orders, cards, salesCount>>
      ]_vars

\* a notification of 10.01 or the like for a pending order, refused
C8_RefusedAmount ==
    /\ ReachesAmountCheck(out)
    /\ out.amt = "far" /\ out.body = "fail"
    /\ orders[out.oid].status = "pending"

\* the response is to a notification that fails a validation step: one made
\* defective, one for an unknown order or an order paid through another
\* channel, or one with an amount that is not the order's
FailsValidation(r) ==
    /\ r.op = "notify"
    /\ \/ r.tag = "defective"
       \/ /\ r.tag \in {"genuine", "unpaid"}
          /\ \/ r.oid = NULL
             \/ orders[r.oid].paymentMethod # "ldc"
             \/ r.amt \in {"far", "bad"}

\* C9: a notification that fails a validation step is answered "fail" and
\* the step changes no order, no card and no sales counter.
C9_RejectedWithoutEffect ==
    [][ FailsValidation(out') =>
            /\ out'.body = "fail"
            /\ UNCHANGED <<orders, cards, salesCount>>
      ]_vars

\* a defective notification about a pending order, answered "fail"
C9_DefectiveRefused ==
    /\ out.op = "notify" /\ out.tag = "defective" /\ out.body = "fail"
    /\ \E o \in OrderIds : Exists(o) /\ orders[o].status = "pending"
                           /\ orders[o].paymentMethod = "ldc"

\* C10: every response of the webhook is ("success", 200), ("fail", 400) or
\* ("fail", 500).
C10_WireContract ==
    out.op = "notify" =>
        <<out.body, out.status>> \in { <<"success", 200>>, <<"fail", 400>>,
                                       <<"fail", 500>> }

\* the notifications of Payments that are valid in every respect for order o
ValidPaymentsOf(o) ==
    IF Exists(o)
    THEN {n \in Payments : n.params.out_trade_no = OrderNo(o)
                              /\ AmountClass(o, n.mils) = "near"}
    ELSE {}

\* C11: a fully valid TRADE_SUCCESS notification for an order that the
\* handler finds in a status other than pending is answered "success" (200)
\* and goes no further, and no stage of the handler changes an order, a card
\* or a sales count on behalf of an order that is not pending.
C11_NonPendingAcknowledged ==
    [][/\ \A s \in Slots, o \in OrderIds : \A n \in ValidPaymentsOf(o) :
            (Exists(o) /\ orders[o].status # "pending" /\ notifyStart(s, n))
                => /\ out'.body = "success" /\ out'.status = 200
                   /\ UNCHANGED <<orders, cards, salesCount, req>>
       /\ \A s \in Slots, dbOk \in BOOLEAN :
            (/\ req[s].op = "notify" /\ req[s].pc = "handle"
             /\ orders[req[s].oid].status # "pending"
             /\ notifyHandle(s, dbOk))
                => UNCHANGED <<orders, cards, salesCount>>]_vars

\* a valid notification has just been acknowledged for a rejected refund
C11_LateNotification ==
    /\ out.op = "notify" /\ out.body = "success" /\ out.why = "not_pending"
    /\ out.tag = "genuine" /\ out.amt = "near"
    /\ orders[out.oid].status = "refund_rejected"

\* C12: verifySign accepts the parameters signed by generateSign under the
\* same secret, and rejects them once one character of a signed value has
\* been changed or when it is given another secret (the digest being free
\* of collisions).
C12_SignRoundTrip ==
    out.op = "verifySign" =>
        (out.ok <=> (out.changed = {} /\ out.used = out.key))

\* a signature has just been refused because one character of the item name,
\* which holds an "=", was changed to "&"
C12_TamperedRefused ==
    /\ out.op = "verifySign" /\ ~out.ok
    /\ out.changed = {"name"} /\ out.used = out.key
    /\ out.form.name = <<"a", "&", "b">>

\* the orders a step turns from pending to expired
TurnedExpired ==
    {o \in OrderIds : /\ orders[o].status = "pending"
                       /\ orders'[o].status = "expired"}

\* the cards a step changes
TouchedCards == {c \in Cards : cards'[c] # cards[c]}

\* C13: a sweep expires exactly the overdue pending orders, returns their
\* number, and frees exactly the cards locked for them; a sweep that comes
\* second, after the first or at the same time, finds nothing, changes
\* nothing and returns 0.  So an order is expired once and its cards are
\* returned once.
C13_SweepOnce ==
    [][/\ out'.op = "releaseExpiredOrders"
            => /\ out'.status = Cardinality(TurnedExpired)
               /\ (ExpiredOrders = {} => UNCHANGED <<orders, cards>>)
       /\ \A o \in OrderIds :
            (Exists(o) /\ orders'[o].status = "expired")
                => \/ orders[o].status = "expired" /\ orders'[o] = orders[o]
                   \/ o \in TurnedExpired /\ orders[o].expiredAt < now
       /\ \A c \in Cards :
            /\ c \in TouchedCards /\ cards[c].status = "locked" /\ TurnedExpired # {}
                => /\ cards[c].orderId \in TurnedExpired
                   /\ cards'[c].status = "available" /\ cards'[c].orderId = NULL
            /\ cards[c].status = "locked" /\ cards[c].orderId \in TurnedExpired
                => c \in TouchedCards]_vars

\* a sweep has just returned 0 with the order expired and its card back
C13_SecondSweep ==
    /\ out.op = "releaseExpiredOrders" /\ out.status = 0
    /\ \E o \in OrderIds :
            /\ Exists(o) /\ orders[o].status = "expired"
            /\ CardsOf(o) = {}
            /\ \E c \in Cards : cards[c].status = "available"
                                  /\ cards[c].productId = orders[o].productId

\* C14: while sweeps keep being called, every pending order whose expiry
\* time has passed and that nobody pays for becomes expired, and no card
\* stays locked for it.
C14_AbandonedOrderReleased ==
    \A o \in OrderIds :
        (Exists(o) /\ IsExpiredPending(o))
            ~> (/\ orders[o].status = "expired"
                /\ \A c \in Cards : ~IsLockedFor(c, {o}))

\* an order is overdue and still holds its cards
C14_OverdueHolding ==
    \E o \in OrderIds :
        /\ Exists(o) /\ IsExpiredPending(o)
        /\ Cardinality({c \in Cards : IsLockedFor(c, {o})}) = orders[o].quantity

\* the request a step has just answered
Answered(s) == req[s].pc # "idle" /\ req'[s].pc = "idle"

\* C15 as stated: a createOrder that fails for lack of stock reports the
\* number of available cards of the product, which is less than the
\* quantity, and changes no order and no card; one that succeeds inserts the
\* order and locks exactly `quantity` available cards of the product for it
\* in the same step.
C15_AllOrNothingActualCount ==
    [][/\ (out'.op = "createOrder" /\ out'.why = "insufficient")
            => /\ UNCHANGED <<orders, cards, nextOrder>>
               /\ \A s \in Slots : Answered(s) =>
                    /\ out'.status = Cardinality(AvailableCards(req[s].prod))
                    /\ out'.status < req[s].qty
       /\ (out'.op = "createOrder" /\ out'.ok)
            => LET id == out'.oid
                   locked == {c \in Cards : cards'[c] # cards[c]}
               IN  /\ ~Exists(id) /\ orders'[id].status = "pending"
                   /\ Cardinality(locked) = orders'[id].quantity
                   /\ \A c \in locked :
                        /\ IsAvailableFor(c, orders'[id].productId)
                        /\ cards'[c].status = "locked" /\ cards'[c].orderId = id]_vars

\* C15, amended: the number reported is the number of available cards the
\* locking read of the transaction found, which is less than the quantity
\* and never more than the number of cards available; the rest as stated.
C15_AllOrNothing ==
    [][/\ (out'.op = "createOrder" /\ out'.why = "insufficient")
            => /\ UNCHANGED <<orders, cards, nextOrder>>
               /\ \A s \in Slots : Answered(s) =>
                    /\ out'.status = Cardinality(Lockable(s))
                    /\ out'.status <= Cardinality(AvailableCards(req[s].prod))
                    /\ out'.status < req[s].qty
       /\ (out'.op = "createOrder" /\ out'.ok)
            => LET id == out'.oid
                   locked == {c \in Cards : cards'[c] # cards[c]}
               IN  /\ ~Exists(id) /\ orders'[id].status = "pending"
                   /\ Cardinality(locked) = orders'[id].quantity
                   /\ \A c \in locked :
                        /\ IsAvailableFor(c, orders'[id].productId)
                        /\ cards'[c].status = "locked" /\ cards'[c].orderId = id]_vars

\* createOrder has just reported one card left while two are available
C15_StaleCount ==
    /\ out.op = "createOrder" /\ out.why = "insufficient" /\ out.status = 1
    /\ Cardinality(AvailableCards("p1")) = 2
    /\ \A o \in OrderIds : Exists(o) => orders[o].status = "expired"

\* C16: when the gateway's answer to the refund call is not a parsed body
\* with code 1 (another code, a body that is not JSON, no answer, no call),
\* approveRefund reports failure and leaves every order, the refund_pending
\* one included, and every card as they were.
C16_FailedGatewayNoEffect ==
    [][\A s \in Slots, reply \in GatewayReplies :
            (/\ req[s].op = "approveRefund" /\ req[s].pc = "gateway"
             /\ refundOrder(reply) # <<1>>
             /\ approveRefundGateway(s, RefundAnswer(reply)))
                => /\ out'.op = "approveRefund" /\ ~out'.ok
                   /\ req'[s].pc = "idle"
                   /\ UNCHANGED <<orders, cards, salesCount>>]_vars

\* an approval has just failed at the gateway; the order is refund_pending
\* and its card sold
C16_GatewayFailed ==
    /\ out.op = "approveRefund" /\ ~out.ok /\ out.why \in {"refused", "error"}
    /\ orders[out.oid].status = "refund_pending"
    /\ CardsOf(out.oid) # {}
    /\ \A c \in CardsOf(out.oid) : cards[c].status = "sold"

\* C17: in no state is an order refunded while a card still refers to it as
\* sold, nor is a card that was sold to an order returned to the pool while
\* the order is still refund_pending.
C17_RefundAtomic ==
    \A o \in OrderIds : Exists(o) =>
        /\ orders[o].status = "refunded"
            => \A c \in CardsOf(o) : cards[c].status # "sold"
        /\ orders[o].status = "refund_pending"
            => \A c \in Cards : o \in soldTo[c] => cards[c].orderId = o

\* the requestRefund calls tried: caller, order number, reason, environment
RefundRequests ==
    {Anonymous, User1, User2} \X {OrderNo(o) : o \in OrderIds}
        \X RefundReasons \X {RefundEnv, RefundOff}

\* C18: requestRefund goes on to its write only when refunds are enabled,
\* the caller is logged in and owns the order, the order is completed and the
\* trimmed reason has at least five characters, and otherwise reports failure;
\* its write turns a completed order into refund_pending with the trimmed
\* reason and the time; a call that fails changes no order.
C18_RequestRefundGuarded ==
    [][/\ \A s \in Slots, i \in RefundRequests :
            requestRefundStart(s, i[1], i[2], i[3], i[4])
                => LET allowed ==
                          /\ isRefundEnabled(i[4])
                          /\ IsLinuxDoUser(i[1])
                          /\ Len(Trim(i[3])) >= MIN_REASON_LENGTH
                          /\ \E o \in OrderIds :
                                /\ OwnedByNo(o, i[2], i[1])
                                /\ orders[o].status = "completed"
                   IN  IF allowed THEN req'[s].pc = "write"
                       ELSE out'.op = "requestRefund" /\ ~out'.ok /\ UNCHANGED req
       /\ (out'.op = "requestRefund" /\ ~out'.ok) => UNCHANGED <<orders, cards>>
       /\ (out'.op = "requestRefund" /\ out'.ok)
            => LET o == out'.oid IN
               /\ orders[o].status = "completed"
               /\ orders'[o].status = "refund_pending"
               /\ Len(orders'[o].refundReason) >= MIN_REASON_LENGTH
               /\ orders'[o].refundReason = Trim(orders'[o].refundReason)
               /\ orders'[o].refundRequestedAt = now
               /\ UNCHANGED cards]_vars

\* C19: rejectRefund goes on to its write only when the caller is an admin
\* and the order is refund_pending, and otherwise reports failure; its write
\* turns a refund_pending order into refund_rejected and touches no card; a
\* call that fails changes no order and no card.
C19_RejectRefundGuarded ==
    [][/\ \A s \in Slots, u \in {Admin, User1}, id \in OrderIds :
            rejectRefundStart(s, u, id)
                => IF /\ requireAdmin(u) /\ Exists(id)
                      /\ orders[id].status = "refund_pending"
                   THEN req'[s].pc = "write"
                   ELSE out'.op = "rejectRefund" /\ ~out'.ok /\ UNCHANGED req
       /\ (out'.op = "rejectRefund" /\ ~out'.ok) => UNCHANGED <<orders, cards>>
       /\ (out'.op = "rejectRefund" /\ out'.ok)
            => /\ orders[out'.oid].status = "refund_pending"
               /\ orders'[out'.oid].status = "refund_rejected"
               /\ UNCHANGED cards]_vars

\* C20: getUserOrders and getOrderByNo return the content of a card only to
\* the logged-in user who owns the order the card is listed under, only
\* while that order is completed or paid and only if the card is sold to it.
C20_CardsOnlyToOwner ==
    out.op \in {"getUserOrders", "getOrderByNo"} =>
        \A shown \in out.shown :
            LET o == shown[1]
                c == shown[2]
            IN  /\ \E u \in {User1, User2} : IsLinuxDoUser(u) /\ u.id = out.user
                /\ Exists(o) /\ orders[o].userId = out.user
                /\ orders[o].status \in {"completed", "paid"}
                /\ cards[c].status = "sold" /\ cards[c].orderId = o

\* the owner has just been shown the cards of a completed order
C20_OwnerShown ==
    /\ out.op = "getOrderByNo" /\ out.ok
    /\ out.shown # {}
    /\ orders[out.oid].status = "completed"
    /\ out.shown = {<<out.oid, c>> : c \in CardsOf(out.oid)}

\* C21: when no payment form can be made for the order just committed,
\* createOrder answers success with the order's number and the order is
\* there, pending, with `quantity` cards locked for it; and a pending order
\* and the cards it holds change only when it is paid for (completed) or
\* when it expires.
C21_LinkFailureKeepsReservation ==
    [][/\ (out'.op = "createOrder" /\ out'.why = "created_nolink")
            => LET id == out'.oid IN
               /\ out'.ok /\ id \in OrderIds /\ ~Exists(id)
               /\ orders'[id].status = "pending"
               /\ Cardinality({c \in Cards : /\ cards'[c].status = "locked"
                                              /\ cards'[c].orderId = id})
                    = orders'[id].quantity
       /\ \A o \in OrderIds :
            (Exists(o) /\ orders[o].status = "pending")
                => \/ /\ orders'[o] = orders[o]
                      /\ \A c \in CardsOf(o) : cards'[c] = cards[c]
                   \/ orders'[o].status = "completed"
                   \/ orders'[o].status = "expired" /\ orders[o].expiredAt < now]_vars

\* an order has just been created without a payment form
C21_CreatedWithoutLink ==
    /\ out.op = "createOrder" /\ out.ok /\ out.why = "created_nolink"
    /\ orders[out.oid].status = "pending"
    /\ CardsOf(out.oid) # {}
    /\ \A c \in CardsOf(out.oid) : cards[c].status = "locked"

\* C22: a createOrder call by a caller who is not a logged-in linux-do
\* user, or with input the schema refuses, touches no table; one for a
\* product that is not on sale or for a quantity outside the product's
\* range fails, inserts no order and locks no card; none of them goes on to
\* the reservation.
C22_RefusedCreatesNothing ==
    [][\A s \in Slots, i \in CreateInputs :
            LET u == i[1]
                p == i[2]
                q == i[3]
                early == ~IsLinuxDoUser(u) \/ ~SchemaOk(p, q, i[4])
                late  == \/ p \notin Products
                         \/ q < MinQuantity(p) \/ q > MaxQuantity(p)
            IN  ((early \/ late) /\ createOrderStart(s, u, p, q, i[4]))
                    => /\ out'.op = "createOrder" /\ ~out'.ok
                       /\ UNCHANGED <<req, nextOrder>>
                       /\ early => UNCHANGED <<orders, cards>>
                       /\ \A o \in OrderIds : Exists(o)' <=> Exists(o)
                       /\ \A c \in Cards :
                            cards'[c].status = "locked" => cards'[c] = cards[c]]_vars

\* createOrder has just refused a product that is not on sale, with the
\* stock of the catalog untouched
C22_NoSuchProduct ==
    /\ out.op = "createOrder" /\ ~out.ok /\ out.why = "no_product"
    /\ \A t \in Slots : req[t].pc = "idle"
    /\ \A c \in Cards : cards[c].status = "available"

\* the different ids of each list that are not blank
NonBlankIds ==
    [ids \in DeleteInputs |-> {Trim(ids[i]) : i \in 1..Len(ids)} \ {<<>>}]

\* C23: deleteAdminOrders called by someone who is not an admin, with a list
\* that holds no id that is not blank, or with more than 200 different ids
\* that are not blank, reports failure for that reason, starts no
\* transaction and changes no order and no card.
C23_DeleteRefused ==
    [][\A s \in Slots, u \in {Admin, User1}, ids \in DeleteInputs :
            (/\ out'.op = "deleteAdminOrders"
             /\ \/ u # Admin
                \/ NonBlankIds[ids] = {}
                \/ Cardinality(NonBlankIds[ids]) > 200
             /\ deleteAdminOrdersSelect(s, u, ids))
                => /\ ~out'.ok
                   /\ out'.why = (IF u # Admin THEN "not_admin"
                                  ELSE IF NonBlankIds[ids] = {} THEN "none_selected"
                                  ELSE "too_many")
                   /\ UNCHANGED <<orders, cards, req>>]_vars

\* a list of 201 ids has just been refused with both orders in place
C23_TooManyRefused ==
    /\ out.op = "deleteAdminOrders" /\ ~out.ok /\ out.why = "too_many"
    /\ \A o \in OrderIds : Exists(o)

\* the orders a step deletes
DeletedOrders == {o \in OrderIds : Exists(o) /\ ~Exists(o)'}

\* the deleteAdminOrders call a step answers after its checks
DeleteAnswered(s) ==
    /\ req[s].op = "deleteAdminOrders" /\ req'[s].pc = "idle"
    /\ out'.op = "deleteAdminOrders"

\* C24 as stated: the call deletes the orders it found by the ids of its
\* list, in any status, and no other; deletedCount is their number,
\* notFoundCount the number of the other ids, the two add up to the number
\* of different ids that are not blank, and success is reported exactly
\* when an order was deleted.
C24_DeleteCountsAddUp ==
    [][\A s \in Slots : DeleteAnswered(s) =>
            /\ DeletedOrders \subseteq req[s].snap
            /\ out'.status = Cardinality(DeletedOrders)
            /\ out'.notFound = req[s].rows
            /\ out'.status + Cardinality(out'.notFound)
                    = Cardinality(req[s].snap) + Cardinality(req[s].rows)
            /\ out'.ok <=> out'.status >= 1]_vars

\* C24, amended: the call deletes the orders named in its list that are
\* still there when its DELETE runs, in any status, and no other;
\* deletedCount is their number, notFoundCount the number of ids for which
\* its lookup found no order, the two add up to at most the number of
\* different ids that are not blank, and success is reported exactly when
\* an order was deleted.
C24_DeleteCounts ==
    [][/\ \A s \in Slots : DeleteAnswered(s) =>
            /\ DeletedOrders = {o \in req[s].snap : Exists(o)}
            /\ out'.status = Cardinality(DeletedOrders)
            /\ out'.notFound = req[s].rows
            /\ out'.status + Cardinality(out'.notFound)
                    <= Cardinality(req[s].snap) + Cardinality(req[s].rows)
       /\ out'.op = "deleteAdminOrders"
            => /\ out'.ok <=> out'.status >= 1
               /\ out'.status = Cardinality(DeletedOrders)]_vars

\* a deletion has just found its only order deleted by another: nothing
\* deleted and nothing reported as not found
C24_DeletedByAnother ==
    /\ out.op = "deleteAdminOrders" /\ out.why = "none_deleted"
    /\ out.status = 0 /\ out.notFound = {}

\* the order has status st
StatusIs(o, st) == Exists(o) /\ orders[o].status = st

\* C25: When the webhook's conditional update of the pending order matches
\* no row because another writer changed the order first, the webhook
\* changes no order, card or sales counter, reads the order again and answers
\* "success" if the order is now completed or paid and "fail" with HTTP 500
\* otherwise; the second read changes nothing either.
C25_LostRaceRereads ==
    [][\A s \in Slots :
          /\ ( /\ req[s].op = "notify" /\ req[s].pc = "handle"
               /\ ~StatusIs(req[s].oid, "pending")
               /\ notifyHandle(s, TRUE) )
             => /\ UNCHANGED <<orders, cards, salesCount>>
                /\ req'[s].op = "notify" /\ req'[s].pc = "reread"
                /\ req'[s].oid = req[s].oid
          /\ ( /\ req[s].op = "notify" /\ req[s].pc = "reread"
               /\ notifyReread(s, TRUE) )
             => /\ UNCHANGED <<orders, cards, salesCount>>
                /\ req'[s].pc = "idle"
                /\ IF \/ StatusIs(req[s].oid, "completed")
                      \/ StatusIs(req[s].oid, "paid")
                   THEN out'.body = "success" /\ out'.status = 200
                   ELSE out'.body = "fail" /\ out'.status = 500]_vars

\* the sweep expired the order between the webhook's first read and its
\* update: the webhook has just answered "fail" and the order is expired
\* with no card sold
C25_SweeperWon ==
    /\ out.op = "notify" /\ out.why = "lost" /\ out.status = 500
    /\ StatusIs(out.oid, "expired")
    /\ \A c \in Cards : cards[c].status # "sold"

\* C26: Of approveRefund and rejectRefund called for the same refund_pending
\* order, at the same time or again, exactly one takes effect: an approval
\* writes "refunded" and returns the cards, and a rejection writes
\* "refund_rejected", only to an order that is still refund_pending, so that
\* an order is never both refunded at the gateway and rejected; the other call
\* reports that the order is not under refund review.
C26_OneReviewTakesEffect ==
    [][\A s \in Slots :
          /\ approveRefundGateway(s, "ok")
                => orders[req[s].oid].status = "refund_pending"
          /\ rejectRefundWrite(s)
                => /\ orders[req[s].oid].status = "refund_pending"
                   /\ req[s].oid \notin refundedOnce]_vars

\* the payment method that a notification of the given type belongs to: the
\* payments of method "ldc" are created with type "epay" (ldc.ts, line 198)
ChannelOf(type) == IF type = "epay" THEN "ldc" ELSE type

\* notification n is signed by the gateway, passes every check before the
\* lookup of the order, and the lookup returns order o
LooksUp(n, o) ==
    /\ n.tag \in {"genuine", "unpaid"}
    /\ Exists(o) /\ n.params.out_trade_no = OrderNo(o)

Refused400 ==
    /\ out'.body = "fail" /\ out'.status = 400
    /\ UNCHANGED <<orders, cards, salesCount, req>>

\* C27, as stated: a notification whose type is not that of the payment
\* method of its order is answered "fail" with status 400 and changes
\* nothing.
C27_TypeMatchesChannel ==
    [][\A s \in Slots, n \in NotifyInputs, o \in OrderIds :
          ( /\ LooksUp(n, o)
            /\ ChannelOf(n.params.type) # orders[o].paymentMethod
            /\ notifyStart(s, n) )
          => Refused400]_vars

\* C27, amended: a notification that is signed by the gateway and names an
\* order whose payment method is not "ldc" is answered "fail" with status
\* 400 and changes nothing, and no such order is passed on to be completed;
\* a notification for an order of method "ldc" is not refused at this check,
\* whatever its type.
C27_OtherMethodRefused ==
    [][/\ ( /\ out'.op = "notify" /\ out'.tag \in {"genuine", "unpaid"}
            /\ out'.oid # NULL )
          => IF orders[out'.oid].paymentMethod # "ldc" THEN Refused400
             ELSE out'.why # "rejected"
       /\ \A s \in Slots :
            ( req[s].pc = "idle" /\ req'[s].op = "notify" )
            => orders[req'[s].oid].paymentMethod = "ldc"]_vars

\* a notification signed by the gateway has just been refused because its
\* order was to be paid through another channel
C27_AlipayOrderRefused ==
    /\ out.op = "notify" /\ out.tag = "genuine"
    /\ out.body = "fail" /\ out.status = 400 /\ out.why = "rejected"
    /\ out.oid # NULL /\ StatusIs(out.oid, "pending")
    /\ orders[out.oid].paymentMethod = "alipay"

CodeUnit(ch) ==
    CASE ch = "1" -> 49
      [] ch = "B" -> 66
      [] ch = "_" -> 95
      [] OTHER    -> 96 + Place(ch)

\* the names in ascending byte order
RECURSIVE ByteSorted(_)
ByteSorted(names) ==
    IF names = {} THEN <<>>
    ELSE LET Codes(k) == [i \in DOMAIN Spelling(k) |-> CodeUnit(Spelling(k)[i])]
             least == CHOOSE k \in names :
                          \A j \in names : CompareSeq(Codes(k), Codes(j)) <= 0
         IN  <<least>> \o ByteSorted(names \ {least})

\* C29: generateSign signs the entries whose name is neither sign nor
\* sign_type and whose value is not empty, in ascending byte order of the
\* names, joined as name=value with & and followed by the secret; and
\* verifySign(P, S) holds exactly when P.sign is generateSign(P, S).
C29_SignedString ==
    /\ (out.op = "generateSign" /\ out.changed = {}) =>
          LET P == SignParams(out.form, "")
              names == {k \in DOMAIN P : /\ k \notin {"sign", "sign_type"}
                                         /\ Value(P, k) # ""}
          IN  out.sign = MD5(JoinPairs(P, ByteSorted(names)) \o out.key)
    /\ out.op = "verifySign" =>
          (out.ok <=> out.sign = generateSign(SignParams(out.form, out.sign),
                                              out.used))

\* the orders that are pending and whose expiry time has passed
Overdue == {o \in OrderIds : /\ Exists(o) /\ orders[o].status = "pending"
                              /\ orders[o].expiredAt < now}

\* C30: A sweep, called on its own, from createOrder or from the product
\* queries, changes only orders that are pending and overdue, and of them
\* only the status, and only cards that are locked for those orders; every
\* other order and card is left as it is.
C30_SweepFrame ==
    [][( \/ releaseExpiredOrders
         \/ \E s \in Slots : sweepCommit(s)
         \/ \E due \in BOOLEAN : lazyReleaseExpiredOrders(due)
         \/ TurnedExpired # {} )
       => /\ \A o \in OrderIds :
                orders'[o] # orders[o]
                    => /\ o \in Overdue
                       /\ orders'[o] = [orders[o] EXCEPT !.status = "expired"]
          /\ \A c \in Cards :
                cards'[c] # cards[c]
                    => /\ cards[c].status = "locked"
                       /\ cards[c].orderId \in Overdue
          /\ UNCHANGED salesCount]_vars

\* a sweep has just run: one order is expired and holds no card, while
\* another order is pending, not yet overdue, and holds its cards locked
C30_OthersUntouched ==
    /\ out.op = "releaseExpiredOrders"
    /\ \E o \in OrderIds : StatusIs(o, "expired") /\ CardsOf(o) = {}
    /\ \E o \in OrderIds :
            /\ StatusIs(o, "pending") /\ orders[o].expiredAt >= now
            /\ Cardinality(HeldBy(o, "locked")) = orders[o].quantity

\* C31, as stated: any two sweeps run inline, before a reservation or
\* before a product query, are at least one interval apart: a step that
\* runs one right after a step that ran one comes an interval later.
C31_InlineSweepsApart ==
    [][out.swept /\ out'.swept => now' - now >= EXPIRE_CHECK_INTERVAL]_vars

\* C31, amended: the sweeps of the product queries are at least one
\* interval apart: one runs only when the interval has passed since
\* lastExpireCheck, which is the time of the last one, and a call that comes
\* sooner changes nothing; createOrder runs its sweep on every call that
\* passes the checks of the session and the input, whenever the last sweep was.
C31_QuerySweepsApart ==
    [][/\ (out'.op = "lazyReleaseExpiredOrders" /\ out'.swept)
            => /\ now - lastExpireCheck >= EXPIRE_CHECK_INTERVAL
               /\ lastExpireCheck' = now
       /\ (out'.op = "lazyReleaseExpiredOrders" /\ ~out'.swept)
            => /\ now - lastExpireCheck < EXPIRE_CHECK_INTERVAL
               /\ UNCHANGED <<orders, cards, lastExpireCheck>>
       /\ lastExpireCheck' # lastExpireCheck
            => out'.op = "lazyReleaseExpiredOrders" /\ out'.swept
       /\ (out'.swept /\ out'.op # "lazyReleaseExpiredOrders")
            => orders' = SweptOrders /\ cards' = SweptCards]_vars

\* a product query has just skipped its sweep, the last one having run at
\* this very time and expired an order
C31_Throttled ==
    /\ out.op = "lazyReleaseExpiredOrders" /\ ~out.swept
    /\ lastExpireCheck = now
    /\ \E o \in OrderIds : StatusIs(o, "expired")

\* the number of available cards of product p in the cards table cs
AvailableIn(cs, p) ==
    Cardinality({c \in Cards : cs[c].productId = p /\ cs[c].status = "available"})

\* the quantities of the orders of product p among os, added up
RECURSIVE QuantityOf(_, _)
QuantityOf(os, p) ==
    IF os = {} THEN 0
    ELSE LET o == CHOOSE x \in os : TRUE
         IN  (IF orders[o].productId = p THEN orders[o].quantity ELSE 0)
                + QuantityOf(os \ {o}, p)

\* C32: A successful reservation of q cards of a product takes q from the
\* available cards of the product and none from another; a sweep that
\* expires unpaid orders gives the product as many available cards back as
\* the orders had reserved; and no step adds a card, removes one or moves
\* one to another product, so that each product keeps its number of cards,
\* every one of them available, locked or sold.
C32_StockConserved ==
    [][/\ (out'.op = "createOrder" /\ out'.ok)
            => \A p \in Products :
                  AvailableIn(cards', p)
                    = AvailableIn(cards, p)
                        - (IF orders'[out'.oid].productId = p
                           THEN orders'[out'.oid].quantity ELSE 0)
       /\ TurnedExpired # {}
            => \A p \in Products :
                  AvailableIn(cards', p)
                    = AvailableIn(cards, p) + QuantityOf(TurnedExpired, p)
       /\ \A c \in Cards :
            /\ cards'[c].productId = cards[c].productId
            /\ cards'[c].status \in {"available", "locked", "sold"}]_vars

\* both cards of a product were reserved by an order that a sweep has just
\* expired, and both are available again
C32_StockBack ==
    /\ out.op = "releaseExpiredOrders"
    /\ \E o \in OrderIds :
            /\ StatusIs(o, "expired") /\ orders[o].quantity = 2
            /\ AvailableCards(orders[o].productId) = StockOf(orders[o].productId)

\* C33: markOrderRefunded goes on to its writes only when the caller is an
\* admin and the order is refund_pending, and otherwise reports failure and
\* changes nothing; its writes do to a refund_pending order what the writes
\* of a successful approveRefund do: the order becomes refunded and every
\* card of the order available with no order.
C33_MarkRefundedAsApproved ==
    [][/\ \A s \in Slots, u \in {Admin, User1}, id \in OrderIds :
            markOrderRefundedStart(s, u, id)
                => IF /\ requireAdmin(u) /\ Exists(id)
                      /\ orders[id].status = "refund_pending"
                   THEN req'[s].pc = "order"
                   ELSE /\ out'.op = "markOrderRefunded" /\ ~out'.ok
                        /\ UNCHANGED <<orders, cards, req>>
       /\ \A s \in Slots :
            /\ markOrderRefundedOrder(s)
                => /\ orders[req[s].oid].status = "refund_pending"
                   /\ orders' = WithStatus(req[s].oid, "refunded")
                   /\ UNCHANGED cards
            /\ markOrderRefundedCards(s)
                => /\ cards' = ReturnedCards(req[s].oid)
                   /\ \A c \in Cards : cards'[c].orderId # req[s].oid
                   /\ UNCHANGED orders]_vars

\* every pending order is referred to by exactly `quantity` cards, all of
\* them locked and of the product of the order
PendingHoldsItsCards ==
    \A o \in OrderIds :
        StatusIs(o, "pending")
            => /\ Cardinality(CardsOf(o)) = orders[o].quantity
               /\ \A c \in CardsOf(o) : /\ cards[c].status = "locked"
                                        /\ cards[c].productId = orders[o].productId

\* the orders a step turns from pending into completed
TurnedCompleted ==
    {o \in OrderIds : /\ orders[o].status = "pending"
                       /\ orders'[o].status = "completed"}

\* C34: In every state every pending order is referred to by exactly
\* `quantity` cards, all locked and of its product; and a step that completes
\* or expires pending orders changes only cards that referred to those orders.
C34_PendingHoldsQuantity ==
    [][/\ PendingHoldsItsCards'
       /\ (TurnedCompleted \cup TurnedExpired) # {}
            => \A c \in TouchedCards :
                  cards[c].orderId \in (TurnedCompleted \cup TurnedExpired)]_vars

\* the webhook has just completed an order and sold its card while another
\* order is pending and holds its card locked
C34_OneCompletedOnePending ==
    /\ out.op = "notify" /\ out.why = "paid"
    /\ HeldBy(out.oid, "sold") # {}
    /\ \E o \in OrderIds : /\ o # out.oid /\ StatusIs(o, "pending")
                           /\ HeldBy(o, "locked") # {}

\* the orders of product p that a completion transaction has completed
EverCompleted(p) ==
    {o \in OrderIds : /\ Exists(o) /\ orders[o].productId = p
                       /\ completions[o] >= 1}

\* C35: Each order is counted in the sales of its product at most once:
\* no order is completed by more than one completion transaction, and while
\* no order has been deleted the sales counter of a product is the sum of the
\* quantities of its orders that were ever completed.
C35_CountedOnce ==
    /\ \A o \in OrderIds : completions[o] <= 1
    /\ (\A o \in 1..nextOrder : Exists(o))
          => \A p \in Products : salesCount[p] = QuantitySum(EverCompleted(p))

\* C36: The gateway refunds an order at most once, however approveRefund
\* calls for it overlap: while one call, answered with success by the
\* gateway, is still under way, no other call for the same order is answered
\* with success.
C36_RefundedAtGatewayOnce ==
    [][\A s, t \in Slots :
          ( /\ s # t
            /\ req[t].op = "approveRefund" /\ req[t].pc = "cards"
            /\ req[s].op = "approveRefund" /\ req[s].oid = req[t].oid )
          => ~approveRefundGateway(s, "ok")]_vars

\* Notifications of one payment under two trade numbers: the gateway's
\* deliveries for trade T1 and a delivery for the same order number that
\* carries trade T2, served at the same time.
TradeNotices ==
    Payments \cup
    { Request("genuine", Notice(OrderNo(o), "T2", Five[1]), Five[2]) : o \in OrderIds }

NextTrade ==
    \/ \E s \in Slots, i \in Purchases :
            Serial /\ createOrderStart(s, i[1], i[2], i[3], i[4])
    \/ \E s \in Slots : createOrderSelect(s)
    \/ \E s \in Slots : createOrderLock(s)
    \/ \E s \in Slots : createOrderCommit(s, TRUE)
    \/ \E s \in Slots, n \in TradeNotices : notifyStart(s, n)
    \/ \E s \in Slots, dbOk \in BOOLEAN : notifyHandle(s, dbOk)
    \/ \E s \in Slots, dbOk \in BOOLEAN : notifyReread(s, dbOk)

SpecTrade == Init /\ [][NextTrade]_vars

\* the step belongs to a delivery of a notification
NotifyStep ==
    \/ out'.op = "notify"
    \/ \E s \in Slots : req'[s] # req[s] /\ "notify" \in {req[s].op, req'[s].op}

\* C37: The delivery that completes an order leaves its trade number on the
\* order, and no step of any delivery changes the row of an order that is
\* completed: its trade number and time of payment stay.
C37_TradeNoKept ==
    [][NotifyStep =>
          /\ \A s \in Slots :
                req[s].op = "notify" /\ out'.why = "paid" /\ req'[s] # req[s]
                => /\ orders'[req[s].oid].status = "completed"
                   /\ orders'[req[s].oid].tradeNo = req[s].trade
          /\ \A o \in OrderIds :
                StatusIs(o, "completed") => orders'[o] = orders[o]]_vars

\* a delivery under trade T2 has lost the update to the delivery under T1:
\* the order is completed and carries T1
C37_OtherTradeLost ==
    \E s \in Slots :
        /\ req[s].op = "notify" /\ req[s].pc = "reread" /\ req[s].trade = "T2"
        /\ StatusIs(req[s].oid, "completed")
        /\ orders[req[s].oid].tradeNo = "T1"

\* C38: The two sweeps do the same.  From one state, at one time, the
\* statement of lazyReleaseExpiredOrders leaves the orders and the cards that
\* the transaction of releaseExpiredOrders leaves, and the transaction, its
\* two statements run on that state, leaves what the statement leaves.
C38_SweepsAgree ==
    [][/\ out'.op = "lazyReleaseExpiredOrders" /\ out'.swept
          => orders' = SweptOrders /\ cards' = SweptCards
       /\ \A s \in Slots :
            ( /\ req[s].op = "releaseExpiredOrders" /\ req[s].pc = "cards"
              /\ req'[s].pc = "idle"
              /\ req[s].snap = ExpiredOrders )
            => orders' = CteOrders /\ cards' = CteCards]_vars

\* the one statement has just run and an order is expired, its cards back
\* in stock
C38_LazySwept ==
    /\ out.op = "lazyReleaseExpiredOrders" /\ out.swept
    /\ \E o \in OrderIds : StatusIs(o, "expired") /\ CardsOf(o) = {}
    /\ \A c \in Cards : cards[c].status # "locked"

\* The deployment is restarted with another LDC_REFUND_MODE, no request in
\* flight; the module variable of the new process starts anew.
setRefundMode(env) ==
    /\ Serial
    /\ env # refundEnv
    /\ refundEnv' = env
    /\ lastExpireCheck' = 0 - EXPIRE_CHECK_INTERVAL
    /\ out' = NoOut
    /\ UNCHANGED <<orders, cards, salesCount, now, nextOrder, req>>
    /\ History({})

\* Refunds of one paid order under the mode the deployment runs in, which
\* is changed between requests.
NextMode ==
    \/ \E s \in Slots :
            Serial /\ NoOrderYet /\ createOrderStart(s, User1, "p1", 1, "ldc")
    \/ \E s \in Slots : createOrderSelect(s)
    \/ \E s \in Slots : createOrderLock(s)
    \/ \E s \in Slots : createOrderCommit(s, TRUE)
    \/ \E s \in Slots, n \in Payments : notifyStart(s, n)
    \/ \E s \in Slots : notifyHandle(s, TRUE)
    \/ \E s \in Slots : notifyReread(s, TRUE)
    \/ \E env \in {RefundEnv, RefundOff} : setRefundMode(env)
    \/ \E s \in Slots, id \in OrderIds :
            requestRefundStart(s, User1, OrderNo(id), Reason, refundEnv)
    \/ \E s \in Slots : requestRefundWrite(s)
    \/ \E s \in Slots, id \in OrderIds : approveRefundStart(s, Admin, id, refundEnv)
    \/ \E s \in Slots, reply \in GatewayReplies :
            approveRefundGateway(s, RefundAnswer(reply))
    \/ \E s \in Slots : approveRefundCards(s)
    \/ \E s \in Slots, id \in OrderIds : rejectRefundStart(s, Admin, id)
    \/ \E s \in Slots : rejectRefundWrite(s)
    \/ \E s \in Slots, id \in OrderIds : markOrderRefundedStart(s, Admin, id)
    \/ \E s \in Slots : markOrderRefundedOrder(s)
    \/ \E s \in Slots : markOrderRefundedCards(s)

SpecMode == Init /\ [][NextMode]_vars

\* C39: While the refund mode is disabled no order comes into refund_pending
\* or refunded and no sold card goes back into stock.
C39_DisabledNoRefund ==
    [][~isRefundEnabled(refundEnv) /\ refundEnv' = refundEnv
          => /\ \A o \in OrderIds :
                    orders'[o].status \in {"refund_pending", "refunded"}
                    => orders'[o].status = orders[o].status
             /\ \A c \in Cards :
                    cards[c].status = "sold" => cards'[c].status = "sold"]_vars

\* C40: A deletion leaves no stock stuck.  In the step that deletes an order
\* every card that was locked for it comes back available with no order,
\* and no card that is locked afterwards belongs to a deleted order.
C40_DeleteReleasesLocked ==
    [][\A o \in DeletedOrders, c \in Cards :
          /\ cards[c].orderId = o /\ cards[c].status = "locked"
             => cards'[c].status = "available" /\ cards'[c].orderId = NULL
          /\ cards'[c].status = "locked" => cards'[c].orderId # o]_vars

\* an order nobody paid for has just been deleted: nothing was ever sold
\* and every card is in stock again, held by no order
C40_PendingOrderDeleted ==
    /\ out.op = "deleteAdminOrders" /\ out.ok /\ out.status >= 1
    /\ nextOrder >= 1
    /\ \A p \in Products : salesCount[p] = 0
    /\ \A o \in OrderIds : ~Exists(o)
    /\ \A c \in Cards : cards[c].status = "available" /\ cards[c].orderId = NULL

====
